---------------------------- MODULE Spec2Model ----------------------------
(***************************************************************************)
(* Verification model of libristretto255: the GF(2^255-19) back-end of     *)
(* src/src/arch/x86_64/f_impl.h and the scalar / point / codec operations  *)
(* declared in src/include/ristretto255.h.                                 *)
(*                                                                         *)
(* The program computes on 64-bit words, 128-bit double words and 255-bit  *)
(* residues.  TLC integers are 32 bits wide, so every machine word and     *)
(* every residue is carried as a natural number in radix 2^13              *)
(* (little-endian digit sequence without leading zero digits, so that two  *)
(* numbers are equal exactly when their sequences are equal).  Word width  *)
(* is applied explicitly (W64, W128) wherever the C code wraps.            *)
(***************************************************************************)
EXTENDS Integers, Sequences, FiniteSets, Bags, TLC

(***************************************************************************)
(* Natural numbers of arbitrary size, radix 2^13: a column of a product of *)
(* two numbers, one of them of at most 31 digits, stays below 2^31.        *)
(***************************************************************************)
DIGIT_BITS == 13
BASE == 8192

BNZero == <<>>

BNDigit(a, i) == IF i <= Len(a) THEN a[i] ELSE 0

\* index of the most significant non-zero digit among a[1..n]
RECURSIVE BNTop(_, _)
BNTop(a, n) == IF n = 0 THEN 0 ELSE IF a[n] # 0 THEN n ELSE BNTop(a, n - 1)

\* the digits without leading zeros, as a tuple
BNNorm(a) == SubSeq(a, 1, BNTop(a, Len(a)))

\* a natural below 2^26 as a number
BN(n) == BNNorm(<<n % BASE, n \div BASE>>)

\* value of a number known to be below 2^26
BNInt(a) == BNDigit(a, 1) + BASE * BNDigit(a, 2)

BNMin(x, y) == IF x <= y THEN x ELSE y
BNMax(x, y) == IF x >= y THEN x ELSE y

\* Carry propagation over a sequence s of (possibly negative) column values
\* with incoming carry c: <<digits, outgoing carry>>.  Halving keeps the
\* nesting logarithmic in the length.
RECURSIVE BNCarryR(_, _, _, _)
BNCarryR(s, lo, hi, c) ==
    IF lo > hi THEN <<(<<>>), c>>
    ELSE IF hi - lo <= 3
    THEN LET v1 == s[lo] + c
             v2 == s[lo + 1] + (v1 \div BASE)
             v3 == s[lo + 2] + (v2 \div BASE)
             v4 == s[lo + 3] + (v3 \div BASE)
         IN  IF hi = lo THEN <<(<<v1 % BASE>>), v1 \div BASE>>
             ELSE IF hi = lo + 1 THEN <<(<<v1 % BASE, v2 % BASE>>), v2 \div BASE>>
             ELSE IF hi = lo + 2
             THEN <<(<<v1 % BASE, v2 % BASE, v3 % BASE>>), v3 \div BASE>>
             ELSE <<(<<v1 % BASE, v2 % BASE, v3 % BASE, v4 % BASE>>), v4 \div BASE>>
    ELSE LET h == lo + 4 * (((hi - lo) \div 8) + 1) - 1
             l == BNCarryR(s, lo, h, c)
             u == BNCarryR(s, h + 1, hi, l[2])
         IN  <<l[1] \o u[1], u[2]>>
BNCarry(s, c) == BNCarryR(s, 1, Len(s), c)

\* digits followed by a non-negative outgoing carry below BASE
BNClose(r) == BNNorm(Append(r[1], r[2]))

BNAdd(a, b) ==
    BNClose(BNCarry([i \in 1..BNMax(Len(a), Len(b)) |-> BNDigit(a, i) + BNDigit(b, i)], 0))

\* a - b for a >= b
BNSub(a, b) ==
    BNNorm(BNCarry([i \in 1..Len(a) |-> a[i] - BNDigit(b, i)], 0)[1])

RECURSIVE BNLessAt(_, _, _)
BNLessAt(a, b, i) ==
    IF i = 0 THEN FALSE
    ELSE IF a[i] # b[i] THEN a[i] < b[i]
    ELSE BNLessAt(a, b, i - 1)

BNLess(a, b) ==
    IF Len(a) # Len(b) THEN Len(a) < Len(b) ELSE BNLessAt(a, b, Len(a))

BNLeq(a, b) == ~BNLess(b, a)

\* a * m for 0 <= m < 2^17
BNMulSmall(a, m) ==
    IF m = 0 THEN <<>> ELSE BNClose(BNCarry([i \in 1..Len(a) |-> a[i] * m], 0))

\* column k of the schoolbook product: the sum of a[i] * b[k+1-i]
\* (the sum of a function's values is the cardinality of the bag it is,
\* once every value is made positive)
BNCol(a, b, k) ==
    LET lo == BNMax(1, k + 1 - Len(b))
        hi == BNMin(Len(a), k)
    IN  BagCardinality([i \in lo..hi |-> a[i] * b[k + 1 - i] + 1]) - (hi - lo + 1)

BNMul(a, b) ==
    IF Len(a) = 0 \/ Len(b) = 0 THEN <<>>
    ELSE BNClose(BNCarry([k \in 1..(Len(a) + Len(b) - 1) |-> BNCol(a, b, k)], 0))

\* a^2: column k is twice the sum of the a[i] * a[k+1-i] with i < k+1-i,
\* plus the square of the middle digit when there is one
BNSqrCol(a, k) ==
    LET lo  == BNMax(1, k + 1 - Len(a))
        hi  == k \div 2
        mid == IF k % 2 = 1 THEN a[(k + 1) \div 2] * a[(k + 1) \div 2] ELSE 0
    IN  IF hi < lo THEN mid
        ELSE 2 * (BagCardinality([i \in lo..hi |-> a[i] * a[k + 1 - i] + 1])
                  - (hi - lo + 1)) + mid

BNSqr(a) ==
    IF Len(a) = 0 THEN <<>>
    ELSE BNClose(BNCarry([k \in 1..(2 * Len(a) - 1) |-> BNSqrCol(a, k)], 0))

\* a * 2^n
BNShl(a, n) ==
    IF Len(a) = 0 THEN <<>>
    ELSE [i \in 1..(n \div DIGIT_BITS) |-> 0] \o BNMulSmall(a, 2 ^ (n % DIGIT_BITS))

\* floor(a / 2^n)
BNShr(a, n) ==
    LET q == n \div DIGIT_BITS
        r == n % DIGIT_BITS
        m == 2 ^ r
        t == 2 ^ (DIGIT_BITS - r)
    IN  IF Len(a) <= q THEN <<>>
        ELSE BNNorm([i \in 1..(Len(a) - q) |->
                 (a[i + q] \div m) + (BNDigit(a, i + q + 1) % m) * t])

\* a mod 2^n
BNLow(a, n) ==
    LET q == n \div DIGIT_BITS
        r == n % DIGIT_BITS
    IN  IF Len(a) <= q THEN BNNorm(a)
        ELSE BNNorm([i \in 1..(q + 1) |->
                 IF i <= q THEN a[i] ELSE a[i] % (2 ^ r)])

BNPow2(n) == BNShl(<<1>>, n)

BNBit(a, n) == (BNDigit(a, (n \div DIGIT_BITS) + 1) \div (2 ^ (n % DIGIT_BITS))) % 2

BNIsOdd(a) == BNDigit(a, 1) % 2 = 1

\* the n <= 13 bits of a from bit o up, as an integer
BNBits(a, o, n) ==
    LET j == o \div DIGIT_BITS
        r == o % DIGIT_BITS
    IN  ((BNDigit(a, j + 1) \div (2 ^ r)) + BNDigit(a, j + 2) * (2 ^ (DIGIT_BITS - r))) % (2 ^ n)

RECURSIVE DigitAnd(_, _)
DigitAnd(x, y) ==
    IF x = 0 \/ y = 0 THEN 0
    ELSE IF x = BASE - 1 THEN y
    ELSE IF y = BASE - 1 THEN x
    ELSE (x % 2) * (y % 2) + 2 * DigitAnd(x \div 2, y \div 2)

RECURSIVE DigitOr(_, _)
DigitOr(x, y) ==
    IF x = 0 THEN y
    ELSE IF y = 0 THEN x
    ELSE (IF x % 2 = 1 \/ y % 2 = 1 THEN 1 ELSE 0) + 2 * DigitOr(x \div 2, y \div 2)

BNMaxLen(a, b) == IF Len(a) >= Len(b) THEN Len(a) ELSE Len(b)

\* bitwise a & b, a | b
BNAnd(a, b) == BNNorm([i \in 1..BNMaxLen(a, b) |-> DigitAnd(BNDigit(a, i), BNDigit(b, i))])
BNOr(a, b)  == BNNorm([i \in 1..BNMaxLen(a, b) |-> DigitOr(BNDigit(a, i), BNDigit(b, i))])

\* the number written as 16-bit groups, most significant first: digit j
\* (from 0) is bits 13j .. 13j+12, taken from the one or two groups they
\* lie in
Hex(h) ==
    LET n    == Len(h)
        G(t) == IF t < n THEN h[n - t] ELSE 0
    IN  BNNorm([j \in 1..((16 * n + DIGIT_BITS - 1) \div DIGIT_BITS) |->
            LET b   == DIGIT_BITS * (j - 1)
                g   == b \div 16
                off == b % 16
            IN  ((G(g) \div (2 ^ off)) % BASE)
                + (IF off > 3 THEN (G(g + 1) % (2 ^ (off - 3))) * (2 ^ (16 - off)) ELSE 0)])

\* a mod m by repeated subtraction, for a < (small multiple of m)
RECURSIVE BNCondSub(_, _)
BNCondSub(a, m) == IF BNLess(a, m) THEN a ELSE BNCondSub(BNSub(a, m), m)

\* Let([x \in {e} |-> body]) is body with x bound to the value of e: e is
\* evaluated once, before body
Let(f) == f[CHOOSE d \in DOMAIN f : TRUE]

(***************************************************************************)
(* Machine words.  word_t and mask_t are 64 bits, dword_t 128 bits and     *)
(* dsword_t a signed 128-bit integer kept in two's complement.             *)
(***************************************************************************)
WORD_BITS == 64
DWORD_BITS == 128

W64(x) == BNLow(x, WORD_BITS)
W128(x) == BNLow(x, DWORD_BITS)

\* 2^64 and 2^128
TWO64 == <<0, 0, 0, 0, 4096>>
TWO128 == <<0, 0, 0, 0, 0, 0, 0, 0, 0, 2048>>

\* unsigned 64-bit a + b and a - b: five digits, the carry (or borrow)
\* running up through them and the top one cut to the 12 bits a word has
\* there
WAdd(a, b) ==
    LET v1 == BNDigit(a, 1) + BNDigit(b, 1)
        v2 == BNDigit(a, 2) + BNDigit(b, 2) + (v1 \div BASE)
        v3 == BNDigit(a, 3) + BNDigit(b, 3) + (v2 \div BASE)
        v4 == BNDigit(a, 4) + BNDigit(b, 4) + (v3 \div BASE)
        v5 == BNDigit(a, 5) + BNDigit(b, 5) + (v4 \div BASE)
    IN  BNNorm(<<v1 % BASE, v2 % BASE, v3 % BASE, v4 % BASE, v5 % 4096>>)

WSub(a, b) ==
    LET v1 == BNDigit(a, 1) - BNDigit(b, 1)
        v2 == BNDigit(a, 2) - BNDigit(b, 2) + (v1 \div BASE)
        v3 == BNDigit(a, 3) - BNDigit(b, 3) + (v2 \div BASE)
        v4 == BNDigit(a, 4) - BNDigit(b, 4) + (v3 \div BASE)
        v5 == BNDigit(a, 5) - BNDigit(b, 5) + (v4 \div BASE)
    IN  BNNorm(<<v1 % BASE, v2 % BASE, v3 % BASE, v4 % BASE, v5 % 4096>>)

\* the masks -1 and 0
\* 2^64 - 1
MASK_TRUE == <<8191, 8191, 8191, 8191, 4095>>
MASK_FALSE == <<>>

MaskNot(m) == BNSub(MASK_TRUE, m)

\* -(x & 1) as a mask
MaskOfBit(x) == IF BNIsOdd(x) THEN MASK_TRUE ELSE MASK_FALSE

word_is_zero(x) == IF Len(W64(x)) = 0 THEN MASK_TRUE ELSE MASK_FALSE

\* dsword_t: s + w - m for words w, m; arithmetic shift right; negative?
DSNeg(s) == BNBit(s, DWORD_BITS - 1) = 1
DSAddSub(s, w, m) == W128(BNSub(BNAdd(BNAdd(s, w), TWO128), m))
DSAsr(s, n) ==
    IF DSNeg(s)
    THEN BNAdd(BNShr(s, n), BNSub(TWO128, BNPow2(DWORD_BITS - n)))
    ELSE BNShr(s, n)

(***************************************************************************)
(* GF(2^255 - 19), five 51-bit limbs in 64-bit words (f_impl.h).  A field  *)
(* element is the sequence <<limb[0], ..., limb[4]>>.                      *)
(***************************************************************************)
RISTRETTO255_FIELD_LIMBS == 5
SER_BYTES == 32
LIMB_PLACE_VALUE == 51

\* (1 << 51) - 1
LIMB_MASK == <<8191, 8191, 8191, 4095>>

Limbs == 1..RISTRETTO255_FIELD_LIMBS

\* the five limbs F(1) .. F(5) as a gf_25519_t
GF(F(_)) == <<F(1), F(2), F(3), F(4), F(5)>>

gf_add_RAW(a, b) == LET out(i) == WAdd(a[i], b[i]) IN GF(out)

gf_sub_RAW(a, b) == LET out(i) == WSub(a[i], b[i]) IN GF(out)

\* the words gf_bias adds: (amt << 52) - 38 amt to limb 0 and
\* (amt << 52) - 2 amt to the others
gf_bias_word(amt, m) == WSub(BNShl(BN(amt), 52), BN(m * amt))

\* gf_bias that adds the words of amt = 1, whatever amt is
gf_bias_once(a, amt) ==
    Let([w0 \in {gf_bias_word(1, 38)} |->
    Let([w \in {gf_bias_word(1, 2)} |->
        LET out(i) == IF i = 1 THEN WAdd(a[i], w0) ELSE WAdd(a[i], w)
        IN  GF(out)])])

gf_bias(a, amt) ==
    Let([w0 \in {gf_bias_word(amt, 38)} |->
    Let([w \in {gf_bias_word(amt, 2)} |->
        LET out(i) == IF i = 1 THEN WAdd(a[i], w0) ELSE WAdd(a[i], w)
        IN  GF(out)])])

\* x & mask for mask = (1 << 51) - 1, and x >> 51
LowLimb(x) == BNLow(x, LIMB_PLACE_VALUE)
HighLimb(x) == BNShr(x, LIMB_PLACE_VALUE)

\* gf_weak_reduce with its loop going up, so that each limb takes the
\* carry of the lower limb as already reduced
gf_weak_reduce_ascending(a) ==
    Let([tmp \in {HighLimb(a[5])} |->
    Let([o1 \in {WAdd(LowLimb(a[1]), W64(BNMulSmall(tmp, 19)))} |->
    Let([o2 \in {WAdd(LowLimb(a[2]), HighLimb(o1))} |->
    Let([o3 \in {WAdd(LowLimb(a[3]), HighLimb(o2))} |->
    Let([o4 \in {WAdd(LowLimb(a[4]), HighLimb(o3))} |->
        <<o1, o2, o3, o4, WAdd(LowLimb(a[5]), HighLimb(o4))>>])])])])])

gf_weak_reduce(a) ==
    Let([tmp \in {HighLimb(a[5])} |->
        LET out(i) ==
            IF i > 1 THEN WAdd(LowLimb(a[i]), HighLimb(a[i - 1]))
                     ELSE WAdd(LowLimb(a[1]), W64(BNMulSmall(tmp, 19)))
        IN  GF(out)])

MODULUS == <<Hex(<<\h7, \hffff, \hffff, \hffed>>),
             Hex(<<\h7, \hffff, \hffff, \hffff>>),
             Hex(<<\h7, \hffff, \hffff, \hffff>>),
             Hex(<<\h7, \hffff, \hffff, \hffff>>),
             Hex(<<\h7, \hffff, \hffff, \hffff>>)>>

SQRT_MINUS_ONE == <<Hex(<<\h6, \h1b27, \h4a0e, \ha0b0>>),
                    Hex(<<\h0, \hd5a5, \hfc8f, \h189d>>),
                    Hex(<<\h7, \hef5e, \h9cbd, \h0c60>>),
                    Hex(<<\h7, \h8595, \ha680, \h4c9e>>),
                    Hex(<<\h2, \hb832, \h4804, \hfc1d>>)>>

ZERO == <<(<<>>), (<<>>), (<<>>), (<<>>), (<<>>)>>
ONE == <<(<<1>>), (<<>>), (<<>>), (<<>>), (<<>>)>>

gf_copy(x) == x

\* first loop of gf_strong_reduce: total_value - p, limb by limb
RECURSIVE gf_strong_reduce_sub(_, _, _)
gf_strong_reduce_sub(a, i, scarry) ==
    IF i > RISTRETTO255_FIELD_LIMBS THEN <<a, scarry>>
    ELSE Let([sc \in {DSAddSub(scarry, a[i], MODULUS[i])} |->
         Let([a1 \in {[a EXCEPT ![i] = BNAnd(sc, LIMB_MASK)]} |->
         Let([sc1 \in {DSAsr(sc, LIMB_PLACE_VALUE)} |->
         gf_strong_reduce_sub(a1, i + 1, sc1)])])])

\* second loop: add p back under the mask scarry_0
RECURSIVE gf_strong_reduce_add(_, _, _, _)
gf_strong_reduce_add(a, i, carry, scarry_0) ==
    IF i > RISTRETTO255_FIELD_LIMBS THEN <<a, carry>>
    ELSE Let([c \in {W128(BNAdd(BNAdd(carry, a[i]), BNAnd(scarry_0, MODULUS[i])))} |->
         Let([a1 \in {[a EXCEPT ![i] = BNAnd(c, LIMB_MASK)]} |->
         Let([c1 \in {BNShr(c, LIMB_PLACE_VALUE)} |->
         gf_strong_reduce_add(a1, i + 1, c1, scarry_0)])])])

\* gf_strong_reduce without the gf_weak_reduce it starts with
gf_strong_reduce_run_noweak(a0) ==
    Let([sub \in {gf_strong_reduce_sub(a0, 1, <<>>)} |->
    Let([scarry_0 \in {W64(sub[2])} |->
    Let([add \in {gf_strong_reduce_add(sub[1], 1, <<>>, scarry_0)} |->
        [a       |-> add[1],
         scarry  |-> sub[2],
         scarry_0 |-> scarry_0,
         carry   |-> add[2],
         assert1 |-> Len(BNOr(word_is_zero(sub[2]), word_is_zero(BNAdd(sub[2], <<1>>)))) # 0,
         assert2 |-> Len(word_is_zero(BNAdd(add[2], scarry_0))) # 0]])])])

\* gf_strong_reduce without its second loop
gf_strong_reduce_run_noaddback(a0) ==
    Let([w \in {gf_weak_reduce(a0)} |->
    Let([sub \in {gf_strong_reduce_sub(w, 1, <<>>)} |->
    Let([scarry_0 \in {W64(sub[2])} |->
        [a       |-> sub[1],
         scarry  |-> sub[2],
         scarry_0 |-> scarry_0,
         carry   |-> <<>>,
         assert1 |-> Len(BNOr(word_is_zero(sub[2]), word_is_zero(BNAdd(sub[2], <<1>>)))) # 0,
         assert2 |-> Len(word_is_zero(BNAdd(<<>>, scarry_0))) # 0]])])])

\* gf_strong_reduce with its carries and the outcome of its two assertions
gf_strong_reduce_run(a0) ==
    Let([w \in {gf_weak_reduce(a0)} |->
    Let([sub \in {gf_strong_reduce_sub(w, 1, <<>>)} |->
    Let([scarry_0 \in {W64(sub[2])} |->
    Let([add \in {gf_strong_reduce_add(sub[1], 1, <<>>, scarry_0)} |->
        [a       |-> add[1],
         scarry  |-> sub[2],
         scarry_0 |-> scarry_0,
         carry   |-> add[2],
         assert1 |-> Len(BNOr(word_is_zero(sub[2]), word_is_zero(BNAdd(sub[2], <<1>>)))) # 0,
         assert2 |-> Len(word_is_zero(BNAdd(add[2], scarry_0))) # 0]])])])])

gf_strong_reduce(a) == gf_strong_reduce_run(a).a

\* gf_sub without its gf_bias
gf_sub_nobias(a, b) == Let([c \in {gf_sub_RAW(a, b)} |-> gf_weak_reduce(c)])

gf_sub(a, b) ==
    Let([c \in {gf_sub_RAW(a, b)} |->
    Let([d \in {gf_bias(c, 2)} |-> gf_weak_reduce(d)])])

gf_add(a, b) == Let([c \in {gf_add_RAW(a, b)} |-> gf_weak_reduce(c)])

RECURSIVE gf_or_limbs(_, _, _)
gf_or_limbs(c, i, ret) ==
    IF i > RISTRETTO255_FIELD_LIMBS THEN ret
    ELSE Let([r \in {BNOr(ret, c[i])} |-> gf_or_limbs(c, i + 1, r)])

\* gf_eq without its gf_strong_reduce
gf_eq_weak(a, b) ==
    Let([c \in {gf_sub(a, b)} |->
    Let([ret \in {gf_or_limbs(c, 1, <<>>)} |-> word_is_zero(ret)])])

gf_eq(a, b) ==
    Let([c \in {gf_sub(a, b)} |->
    Let([d \in {gf_strong_reduce(c)} |->
    Let([ret \in {gf_or_limbs(d, 1, <<>>)} |-> word_is_zero(ret)])])])

\* gf_hibit that reduces x itself, not x + x
gf_hibit_nodouble(x) ==
    Let([y \in {gf_copy(x)} |->
    Let([z \in {gf_strong_reduce(y)} |-> MaskOfBit(z[1])])])

gf_hibit(x) ==
    Let([y \in {gf_add(x, x)} |->
    Let([z \in {gf_strong_reduce(y)} |-> MaskOfBit(z[1])])])

gf_lobit(x) ==
    Let([y \in {gf_copy(x)} |->
    Let([z \in {gf_strong_reduce(y)} |-> MaskOfBit(z[1])])])

\* F applied n times to st, halving n so that the nesting stays logarithmic
RECURSIVE Iterate(_, _, _)
Iterate(F(_), st, n) ==
    IF n = 0 THEN st
    ELSE IF n = 1 THEN F(st)
    ELSE Let([m \in {Iterate(F, st, n \div 2)} |-> Iterate(F, m, n - (n \div 2))])

\* unsigned int arithmetic of the loop counters fill and j
UINT_BITS == 32
UAdd(a, b) == BNLow(BNAdd(a, b), UINT_BITS)
USub(a, b) == BNLow(BNSub(BNAdd(a, BNPow2(UINT_BITS)), b), UINT_BITS)

\* sum of (a[i] mod 2^51) * 2^(51 i): digit k takes its bits from the limb
\* they start in and, when they run past its 51st bit, from the next one
gf_pack(a) ==
    BNNorm([k \in 1..20 |->
        LET b  == DIGIT_BITS * (k - 1)
            i  == b \div LIMB_PLACE_VALUE
            o  == b % LIMB_PLACE_VALUE
            n1 == BNMin(DIGIT_BITS, LIMB_PLACE_VALUE - o)
        IN  BNBits(a[i + 1], o, n1)
            + (IF n1 < DIGIT_BITS /\ i + 1 < RISTRETTO255_FIELD_LIMBS
               THEN BNBits(a[i + 2], 0, DIGIT_BITS - n1) * (2 ^ n1) ELSE 0)])

\* the part of each limb from its 51st bit up, one limb place higher
gf_carries(a) ==
    BNShl(BNAdd(BNShr(a[1], 51), BNShl(BNAdd(BNShr(a[2], 51), BNShl(BNAdd(BNShr(a[3], 51),
          BNShl(BNAdd(BNShr(a[4], 51), BNShl(BNShr(a[5], 51), 51)), 51)), 51)), 51)), 51)

\* the residue a field element stands for, before any reduction:
\* sum of limb[i] * 2^(51 i)
gf_value(a) ==
    IF \A i \in Limbs : Len(BNShr(a[i], LIMB_PLACE_VALUE)) = 0
    THEN gf_pack(a)
    ELSE BNAdd(gf_pack(a), gf_carries(a))

\* p = 2^255 - 19
P25519 == <<8173, 8191, 8191, 8191, 8191, 8191, 8191, 8191, 8191, 8191,
           8191, 8191, 8191, 8191, 8191, 8191, 8191, 8191, 8191, 255>>

\* y mod p for y of 21 digits or fewer: 2^255 = 19, so the bits from 255 up (the top
\* five bits of digit 20 and digit 21) come back in at the bottom times
\* 19; a y below 2^255 is p or more when y + 19 reaches 2^255
RECURSIVE ModP255(_)
ModP255(y) ==
    IF BNDigit(y, 20) >= 256 \/ Len(y) > 20
    THEN Let([r \in {BNCarry([k \in 1..20 |->
                    IF k = 1 THEN y[1] + 19 * ((y[20] \div 256) + 32 * BNDigit(y, 21))
                    ELSE IF k = 20 THEN y[20] % 256 ELSE y[k]], 0)} |-> ModP255(BNClose(r))])
    ELSE Let([r \in {BNCarry([k \in 1..20 |->
                    IF k = 1 THEN BNDigit(y, 1) + 19 ELSE BNDigit(y, k)], 0)[1]} |-> IF r[20] >= 256 THEN BNNorm([r EXCEPT ![20] = r[20] % 256])
                           ELSE y])

\* x mod p: 2^260 = 19 * 32, so the digits from the 21st up fold onto the
\* bottom times 608, until 21 digits or fewer are left
RECURSIVE ModP(_)
ModP(x) ==
    IF Len(x) <= 21 THEN ModP255(x)
    ELSE Let([u \in {BNClose(BNCarry([k \in 1..BNMax(20, Len(x) - 20) |->
                    (IF k <= 20 THEN x[k] ELSE 0) + 608 * BNDigit(x, k + 20)], 0))} |-> ModP(u)])

\* the limbs of a residue v < 2^255
gf_limbs(v) ==
    LET out(i) ==
        BNNorm(<<BNBits(v, LIMB_PLACE_VALUE * (i - 1), 13),
                 BNBits(v, LIMB_PLACE_VALUE * (i - 1) + 13, 13),
                 BNBits(v, LIMB_PLACE_VALUE * (i - 1) + 26, 13),
                 BNBits(v, LIMB_PLACE_VALUE * (i - 1) + 39, 12)>>)
    IN  GF(out)

\* the back-end product and square: reduced limbs of a * b
gf_mul(a, b) ==
    Let([va \in {gf_value(a)} |->
    Let([vb \in {gf_value(b)} |->
    Let([prod \in {BNMul(va, vb)} |->
    Let([u \in {ModP(prod)} |-> gf_limbs(u)])])])])

gf_sqr(a) ==
    Let([va \in {gf_value(a)} |->
    Let([prod \in {BNSqr(va)} |->
    Let([u \in {ModP(prod)} |-> gf_limbs(u)])])])

\* n squarings in a row
gf_sqrn(a, n) ==
    Let([va \in {ModP(gf_value(a))} |->
    Let([u \in {Iterate(LAMBDA v : ModP(BNSqr(v)), va, n)} |-> gf_limbs(u)])])

\* constant_time_select(a, bTrue, bFalse, mask): bTrue under an all-ones
\* mask, bFalse under an all-zeros one, bit by bit
constant_time_select(bFalse, bTrue, mask) ==
    LET nmask  == MaskNot(mask)
        out(i) == BNOr(BNAnd(bTrue[i], mask), BNAnd(bFalse[i], nmask))
    IN  GF(out)

(***************************************************************************)
(* gf_isr, statement by statement.  A statement is <<op, dst, src, arg>>   *)
(* over the registers L0..L3 (1..4) and x (5); arg is the second operand   *)
(* of a product or the count of a repeated squaring.                       *)
(***************************************************************************)
L0 == 1
L1 == 2
L2 == 3
L3 == 4
RX == 5

\* the chain with one squaring where line 84 has two
ISR_CHAIN_SHORT ==
    << <<"sqr",  L0, RX, 0>>,
       <<"mul",  L1, L0, RX>>,
       <<"sqr",  L0, L1, 0>>,
       <<"mul",  L1, L0, RX>>,
       <<"sqrn", L0, L1, 3>>,
       <<"mul",  L2, L0, L1>>,
       <<"sqrn", L0, L2, 6>>,
       <<"mul",  L1, L2, L0>>,
       <<"sqr",  L2, L1, 0>>,
       <<"mul",  L0, L2, RX>>,
       <<"sqrn", L2, L0, 12>>,
       <<"mul",  L0, L2, L1>>,
       <<"sqrn", L2, L0, 25>>,
       <<"mul",  L3, L2, L0>>,
       <<"sqrn", L2, L3, 25>>,
       <<"mul",  L1, L2, L0>>,
       <<"sqrn", L2, L1, 50>>,
       <<"mul",  L0, L2, L3>>,
       <<"sqrn", L2, L0, 125>>,
       <<"mul",  L3, L2, L0>>,
       <<"sqr",  L2, L3, 0>>,
       <<"mul",  L0, L2, RX>> >>

ISR_CHAIN ==
    << <<"sqr",  L0, RX, 0>>,
       <<"mul",  L1, L0, RX>>,
       <<"sqr",  L0, L1, 0>>,
       <<"mul",  L1, L0, RX>>,
       <<"sqrn", L0, L1, 3>>,
       <<"mul",  L2, L0, L1>>,
       <<"sqrn", L0, L2, 6>>,
       <<"mul",  L1, L2, L0>>,
       <<"sqr",  L2, L1, 0>>,
       <<"mul",  L0, L2, RX>>,
       <<"sqrn", L2, L0, 12>>,
       <<"mul",  L0, L2, L1>>,
       <<"sqrn", L2, L0, 25>>,
       <<"mul",  L3, L2, L0>>,
       <<"sqrn", L2, L3, 25>>,
       <<"mul",  L1, L2, L0>>,
       <<"sqrn", L2, L1, 50>>,
       <<"mul",  L0, L2, L3>>,
       <<"sqrn", L2, L0, 125>>,
       <<"mul",  L3, L2, L0>>,
       <<"sqrn", L2, L3, 2>>,
       <<"mul",  L0, L2, RX>> >>

gf_isr_stmt(regs, st) ==
    Let([v \in {IF st[1] = "mul" THEN gf_mul(regs[st[3]], regs[st[4]])
           ELSE IF st[1] = "sqr" THEN gf_sqr(regs[st[3]])
           ELSE gf_sqrn(regs[st[3]], st[4])} |-> [regs EXCEPT ![st[2]] = v]])

\* the products and the squarings a statement makes, added to those
\* counted so far
gf_isr_stmt_ops(n, st) ==
    IF st[1] = "mul" THEN [n EXCEPT !.mul = @ + 1]
    ELSE IF st[1] = "sqr" THEN [n EXCEPT !.sqr = @ + 1]
    ELSE [n EXCEPT !.sqr = @ + st[4]]

\* those of the statements lo..hi of the chain
RECURSIVE gf_isr_chain_ops(_, _, _)
gf_isr_chain_ops(n, lo, hi) ==
    IF lo > hi THEN n
    ELSE gf_isr_chain_ops(gf_isr_stmt_ops(n, ISR_CHAIN[lo]), lo + 1, hi)

\* statements lo..hi of the chain, in order
RECURSIVE gf_isr_chain(_, _, _)
gf_isr_chain(regs, lo, hi) ==
    IF lo > hi THEN regs
    ELSE IF lo = hi THEN gf_isr_stmt(regs, ISR_CHAIN[lo])
    ELSE Let([m \in {gf_isr_chain(regs, lo, (lo + hi) \div 2)} |-> gf_isr_chain(m, ((lo + hi) \div 2) + 1, hi)])

\* gf_isr without the final choice between 1 and SQRT_MINUS_ONE
gf_isr_noselect(x) ==
    Let([r \in {gf_isr_chain(<<ZERO, ZERO, ZERO, ZERO, x>>, 1, Len(ISR_CHAIN))} |->
    Let([l3 \in {gf_mul(gf_sqr(r[L0]), x)} |->
    Let([one \in {gf_eq(l3, ONE)} |->
        <<r[L0], BNOr(one, gf_eq(gf_add(l3, ONE), ZERO))>>])])])

\* gf_isr: <<a, succ>>
gf_isr(x) ==
    Let([r \in {gf_isr_chain(<<ZERO, ZERO, ZERO, ZERO, x>>, 1, Len(ISR_CHAIN))} |->
    Let([l2 \in {gf_sqr(r[L0])} |->
    Let([l3 \in {gf_mul(l2, x)} |->
    Let([l1 \in {gf_add(l3, ONE)} |->
    Let([one \in {gf_eq(l3, ONE)} |->
    Let([succ \in {BNOr(one, gf_eq(l1, ZERO))} |->
    Let([qr \in {BNOr(one, gf_eq(l3, SQRT_MINUS_ONE))} |->
    Let([sel \in {constant_time_select(SQRT_MINUS_ONE, ONE, qr)} |->
        <<gf_mul(sel, r[L0]), succ>>])])])])])])])])

(***************************************************************************)
(* Wire format.  A serial is a sequence of SER_BYTES bytes.                *)
(***************************************************************************)
Bytes == 0..255

\* one pass of the byte loop of gf_serialize
gf_serialize_step(st) ==
    LET load == BNLess(st.fill, <<8>>) /\ st.j < RISTRETTO255_FIELD_LIMBS
        buf1 == IF load THEN W128(BNOr(st.buffer, W128(BNShl(st.red[st.j + 1], BNInt(st.fill)))))
                        ELSE st.buffer
        fil1 == IF load THEN UAdd(st.fill, BN(LIMB_PLACE_VALUE)) ELSE st.fill
    IN  [red    |-> st.red,
         j      |-> IF load THEN st.j + 1 ELSE st.j,
         serial |-> Append(st.serial, BNInt(BNLow(buf1, 8))),
         fill   |-> USub(fil1, <<8>>),
         buffer |-> BNShr(buf1, 8),
         steps  |-> (IF load THEN Append(st.steps, <<"limb", st.j>>) ELSE st.steps)
                        \o <<<<"serial", Len(st.serial)>>>>]

\* gf_serialize without its gf_strong_reduce
gf_serialize_run_noreduce(x, with_hibit) ==
    Let([red \in {gf_copy(x)} |->
    Let([st \in {Iterate(gf_serialize_step,
                   [red |-> red, j |-> 0, serial |-> <<>>, fill |-> <<>>, buffer |-> <<>>,
                    steps |-> <<>>],
                   SER_BYTES)} |->
        [serial  |-> st.serial,
         red     |-> red,
         steps   |-> st.steps,
         assert1 |-> with_hibit # 0 \/ Len(gf_hibit(red)) = 0]])])

\* gf_serialize with the outcome of its assertion
gf_serialize_run(x, with_hibit) ==
    Let([red \in {gf_strong_reduce(gf_copy(x))} |->
    Let([st \in {Iterate(gf_serialize_step,
                   [red |-> red, j |-> 0, serial |-> <<>>, fill |-> <<>>, buffer |-> <<>>,
                    steps |-> <<>>],
                   SER_BYTES)} |->
        [serial  |-> st.serial,
         red     |-> red,
         steps   |-> st.steps,
         assert1 |-> with_hibit # 0 \/ Len(gf_hibit(red)) = 0]])])

gf_serialize(x, with_hibit) == gf_serialize_run(x, with_hibit).serial

\* gf_deserialize_byte that masks the last byte where it lies, in serial
gf_deserialize_byte_in_place(st) ==
    LET sj == IF st.j = SER_BYTES - 1
              THEN BNAnd(BN(st.serial[st.j + 1]), BN(255 - st.hi_nmask))
              ELSE BN(st.serial[st.j + 1])
    IN  [st EXCEPT !.serial = [st.serial EXCEPT ![st.j + 1] = BNInt(sj)],
                   !.buffer = W128(BNOr(st.buffer, W128(BNShl(sj, st.fill)))),
                   !.fill = st.fill + 8,
                   !.j = st.j + 1,
                   !.steps = Append(st.steps, <<"serial", st.j>>)]

\* one pass of the inner while loop of gf_deserialize, when its test holds
gf_deserialize_byte(st) ==
    LET sj == IF st.j = SER_BYTES - 1
              THEN BNAnd(BN(st.serial[st.j + 1]), BN(255 - st.hi_nmask))
              ELSE BN(st.serial[st.j + 1])
    IN  [st EXCEPT !.buffer = W128(BNOr(st.buffer, W128(BNShl(sj, st.fill)))),
                   !.fill = st.fill + 8,
                   !.j = st.j + 1,
                   !.steps = Append(st.steps, <<"serial", st.j>>)]

RECURSIVE gf_deserialize_while(_)
gf_deserialize_while(st) ==
    IF st.fill < LIMB_PLACE_VALUE /\ st.j < SER_BYTES
    THEN Let([u \in {gf_deserialize_byte(st)} |-> gf_deserialize_while(u)])
    ELSE st

\* one pass of the limb loop of gf_deserialize
gf_deserialize_limb(st0) ==
    Let([st \in {gf_deserialize_while(st0)} |->
    Let([limb \in {IF st.i < RISTRETTO255_FIELD_LIMBS - 1
           THEN BNAnd(st.buffer, LIMB_MASK) ELSE W64(st.buffer)} |->
        [st EXCEPT !.x = Append(st.x, limb),
                   !.fill = st.fill - LIMB_PLACE_VALUE,
                   !.buffer = BNShr(st.buffer, LIMB_PLACE_VALUE),
                   !.scarry = DSAsr(DSAddSub(st.scarry, limb, MODULUS[st.i + 1]), WORD_BITS),
                   !.i = st.i + 1,
                   !.steps = Append(st.steps, <<"limb", st.i>>)]])])

\* gf_deserialize without the comparison with MODULUS
gf_deserialize_nocheck(serial, with_hibit, hi_nmask) ==
    Let([st \in {Iterate(gf_deserialize_limb,
                   [serial |-> serial, hi_nmask |-> hi_nmask, i |-> 0, j |-> 0, fill |-> 0,
                    buffer |-> <<>>, scarry |-> <<>>, x |-> <<>>, steps |-> <<>>],
                   RISTRETTO255_FIELD_LIMBS)} |->
    Let([succ \in {IF with_hibit # 0 THEN MASK_TRUE ELSE MaskNot(gf_hibit(st.x))} |->
        <<st.x, BNAnd(succ, word_is_zero(st.buffer))>>])])

\* gf_deserialize that always clears the top bit of the last byte
gf_deserialize_cleartop(serial, with_hibit, hi_nmask) ==
    Let([st \in {Iterate(gf_deserialize_limb,
                   [serial |-> serial, hi_nmask |-> 128, i |-> 0, j |-> 0, fill |-> 0,
                    buffer |-> <<>>, scarry |-> <<>>, x |-> <<>>, steps |-> <<>>],
                   RISTRETTO255_FIELD_LIMBS)} |->
    Let([succ \in {IF with_hibit # 0 THEN MASK_TRUE ELSE MaskNot(gf_hibit(st.x))} |->
        <<st.x, BNAnd(BNAnd(succ, word_is_zero(st.buffer)), MaskNot(word_is_zero(st.scarry)))>>])])

\* the limb loop of gf_deserialize
gf_deserialize_loop(serial, hi_nmask) ==
    Iterate(gf_deserialize_limb,
            [serial |-> serial, hi_nmask |-> hi_nmask, i |-> 0, j |-> 0, fill |-> 0,
             buffer |-> <<>>, scarry |-> <<>>, x |-> <<>>, steps |-> <<>>],
            RISTRETTO255_FIELD_LIMBS)

\* gf_deserialize that takes with_hibit as set, whatever it is
gf_deserialize_nohibit(serial, with_hibit, hi_nmask) ==
    Let([st \in {gf_deserialize_loop(serial, hi_nmask)} |->
        <<st.x, BNAnd(BNAnd(MASK_TRUE, word_is_zero(st.buffer)), MaskNot(word_is_zero(st.scarry)))>>])

\* gf_deserialize: <<x, succ>>
gf_deserialize(serial, with_hibit, hi_nmask) ==
    Let([st \in {gf_deserialize_loop(serial, hi_nmask)} |->
    Let([succ \in {IF with_hibit # 0 THEN MASK_TRUE ELSE MaskNot(gf_hibit(st.x))} |->
        <<st.x, BNAnd(BNAnd(succ, word_is_zero(st.buffer)), MaskNot(word_is_zero(st.scarry)))>>])])

(***************************************************************************)
(* The steps a call executes: the calls it makes, the limb and byte        *)
(* indices its loops go through, the branches it takes and the outcome of  *)
(* the tests it makes, each as <<what, which>>.  The loops of gf_serialize *)
(* and gf_deserialize record theirs as they run.                           *)
(***************************************************************************)
Taken(b) == IF b THEN 1 ELSE 0

\* for (i = 0; i < RISTRETTO255_FIELD_LIMBS; i++) over limb[i]
LimbLoop == [i \in 1..RISTRETTO255_FIELD_LIMBS |-> <<"limb", i - 1>>]

\* gf_strong_reduce that adds p back only when scarry_0 is not zero
gf_strong_reduce_steps_branchy(a) ==
    Let([r \in {gf_strong_reduce_run(a)} |->
        <<<<"gf_weak_reduce", 0>>>> \o LimbLoop \o <<<<"assert", Taken(r.assert1)>>>>
        \o (IF Len(r.scarry_0) # 0 THEN LimbLoop ELSE <<>>)
        \o <<<<"assert", Taken(r.assert2)>>>>])

gf_strong_reduce_steps(a) ==
    Let([r \in {gf_strong_reduce_run(a)} |->
        <<<<"gf_weak_reduce", 0>>>> \o LimbLoop \o <<<<"assert", Taken(r.assert1)>>>>
        \o LimbLoop \o <<<<"assert", Taken(r.assert2)>>>>])

gf_eq_steps(a, b) ==
    <<<<"gf_sub", 0>>>> \o gf_strong_reduce_steps(gf_sub(a, b)) \o LimbLoop
    \o <<<<"word_is_zero", 0>>>>

gf_hibit_steps(x) ==
    <<<<"gf_add", 0>>>> \o gf_strong_reduce_steps(gf_add(x, x)) \o <<<<"limb", 0>>>>

gf_lobit_steps(x) ==
    <<<<"gf_copy", 0>>>> \o gf_strong_reduce_steps(gf_copy(x)) \o <<<<"limb", 0>>>>

gf_serialize_steps(x, with_hibit) ==
    Let([r \in {gf_serialize_run(x, with_hibit)} |->
        <<<<"gf_copy", 0>>>> \o gf_strong_reduce_steps(gf_copy(x))
        \o <<<<"if", Taken(with_hibit = 0)>>>>
        \o (IF with_hibit = 0
            THEN gf_hibit_steps(r.red) \o <<<<"assert", Taken(r.assert1)>>>>
            ELSE <<>>)
        \o r.steps])

gf_deserialize_steps(serial, with_hibit, hi_nmask) ==
    Let([st \in {gf_deserialize_loop(serial, hi_nmask)} |->
        st.steps \o <<<<"if", Taken(with_hibit # 0)>>>>
        \o (IF with_hibit # 0 THEN <<>> ELSE gf_hibit_steps(st.x))
        \o <<<<"word_is_zero", 0>>, <<"word_is_zero", 1>>>>])

\* the statements of gf_isr: the chain, then lines 88 to 96
gf_isr_steps(x) ==
    Let([r \in {gf_isr_chain(<<ZERO, ZERO, ZERO, ZERO, x>>, 1, Len(ISR_CHAIN))} |->
    Let([l3 \in {gf_mul(gf_sqr(r[L0]), x)} |->
    Let([l1 \in {gf_add(l3, ONE)} |->
        [k \in 1..Len(ISR_CHAIN) |-> <<ISR_CHAIN[k][1], ISR_CHAIN[k][4]>>]
        \o <<<<"sqr", 0>>, <<"mul", RX>>, <<"gf_add", 0>>>>
        \o gf_eq_steps(l3, ONE) \o gf_eq_steps(l1, ZERO) \o gf_eq_steps(l3, SQRT_MINUS_ONE)
        \o <<<<"constant_time_select", 0>>, <<"mul", L0>>>>])])])

(***************************************************************************)
(* Curve constants.  Edwards25519 is -x^2 + y^2 = 1 + d x^2 y^2 with       *)
(* d = -121665/121666; the group order is                                  *)
(* l = 2^252 + 27742317777372353535851937790883648493.                     *)
(***************************************************************************)
\* d = -121665/121666 mod p
EDWARDS_D == <<Hex(<<\h0003, \h4dca, \h1359, \h78a3>>),
               Hex(<<\h0001, \ha828, \h3b15, \h6ebd>>),
               Hex(<<\h0005, \he7a2, \h6001, \hc029>>),
               Hex(<<\h0007, \h39c6, \h63a0, \h3cbb>>),
               Hex(<<\h0005, \h2036, \hcee2, \hb6ff>>)>>

\* 1/sqrt(a - d) for a = -1
INVSQRT_A_MINUS_D == <<Hex(<<\hfdaa, \h805d, \h40ea>>),
                       Hex(<<\h0002, \heb48, \h2e57, \hd339>>),
                       Hex(<<\h0761, \h0274, \hbc58>>),
                       Hex(<<\h0006, \h510b, \h613d, \hc8ff>>),
                       Hex(<<\h0007, \h86c8, \h905c, \hfaff>>)>>

\* affine coordinates of the base point: y = 4/5, x the even root
BASE_X == <<Hex(<<\h0006, \h2d60, \h8f25, \hd51a>>),
            Hex(<<\h0004, \h12a4, \hb4f6, \h592a>>),
            Hex(<<\h0007, \h5b71, \h71a4, \hb31d>>),
            Hex(<<\h0001, \hff60, \h5271, \h18fe>>),
            Hex(<<\h0002, \h1693, \h6d3c, \hd6e5>>)>>

BASE_Y == <<Hex(<<\h0006, \h6666, \h6666, \h6658>>),
            Hex(<<\h0004, \hcccc, \hcccc, \hcccc>>),
            Hex(<<\h0001, \h9999, \h9999, \h9999>>),
            Hex(<<\h0003, \h3333, \h3333, \h3333>>),
            Hex(<<\h0006, \h6666, \h6666, \h6666>>)>>

\* the group order l
SCALAR_MODULUS ==
    Hex(<<\h1000, \h0000, \h0000, \h0000, \h0000, \h0000, \h0000, \h0000,
          \h14de, \hf9de, \ha2f7, \h9cd6, \h5812, \h631a, \h5cf5, \hd3ed>>)


(***************************************************************************)
(* Points: extended twisted Edwards coordinates (x, y, z, t) with          *)
(* x y = z t.                                                              *)
(***************************************************************************)
gf_cond_sel(x, y, is_z) == constant_time_select(x, y, is_z)

gf_cond_neg(x, neg) == Let([y \in {gf_sub(ZERO, x)} |-> gf_cond_sel(x, y, neg)])

gf_mul_i(x) == gf_mul(x, SQRT_MINUS_ONE)

point_identity == [x |-> ZERO, y |-> ONE, z |-> ONE, t |-> ZERO]

point_base == [x |-> BASE_X, y |-> BASE_Y, z |-> ONE, t |-> gf_mul(BASE_X, BASE_Y)]

\* unified addition (Hisil-Wong-Carter-Dawson, a = -1)
point_add(p, q) ==
    Let([a \in {gf_mul(gf_sub(p.y, p.x), gf_sub(q.y, q.x))} |->
    Let([b \in {gf_mul(gf_add(p.y, p.x), gf_add(q.y, q.x))} |->
    Let([c \in {gf_mul(gf_mul(p.t, q.t), gf_add(EDWARDS_D, EDWARDS_D))} |->
    Let([d \in {gf_mul(gf_add(p.z, p.z), q.z)} |->
    Let([v \in {<<gf_sub(b, a), gf_sub(d, c), gf_add(d, c), gf_add(b, a)>>} |->
        [x |-> gf_mul(v[1], v[2]), y |-> gf_mul(v[3], v[4]),
         z |-> gf_mul(v[2], v[3]), t |-> gf_mul(v[1], v[4])]])])])])])

\* dedicated doubling
point_double(p) ==
    Let([a \in {gf_sqr(p.x)} |->
    Let([b \in {gf_sqr(p.y)} |->
    Let([c \in {Let([zz \in {gf_sqr(p.z)} |-> gf_add(zz, zz)])} |->
    Let([e \in {gf_sub(gf_sub(gf_sqr(gf_add(p.x, p.y)), a), b)} |->
    Let([g \in {gf_sub(b, a)} |->
    Let([f \in {gf_sub(g, c)} |->
    Let([h \in {gf_sub(gf_sub(ZERO, a), b)} |->
        [x |-> gf_mul(e, f), y |-> gf_mul(g, h),
         z |-> gf_mul(f, g), t |-> gf_mul(e, h)]])])])])])])])

\* negate flips the sign of x and t
point_negate(p) == [x |-> gf_sub(ZERO, p.x), y |-> p.y, z |-> p.z, t |-> gf_sub(ZERO, p.t)]

point_sub(p, q) == point_add(p, point_negate(q))

\* adds the point (i, 0) of order 4
point_debugging_torque(p) ==
    [x |-> gf_mul_i(p.y), y |-> gf_mul_i(p.x), z |-> p.z, t |-> gf_sub(ZERO, p.t)]

\* multiplies the four coordinates by the field element factor, or by one
\* when the factor is zero
point_debugging_pscale(p, factor) ==
    Let([g \in {gf_deserialize(factor, 0, 0)[1]} |->
    Let([gfac \in {gf_cond_sel(g, ONE, gf_eq(g, ZERO))} |->
        [x |-> gf_mul(p.x, gfac), y |-> gf_mul(p.y, gfac),
         z |-> gf_mul(p.z, gfac), t |-> gf_mul(p.t, gfac)]])])

\* z /= 0, x y = z t and -x^2 + y^2 = z^2 + d t^2
point_valid(p) ==
    Let([coherent \in {gf_eq(gf_mul(p.x, p.y), gf_mul(p.z, p.t))} |->
    Let([on_curve \in {gf_eq(gf_sub(gf_sqr(p.y), gf_sqr(p.x)),
                 gf_add(gf_sqr(p.z), gf_mul(EDWARDS_D, gf_sqr(p.t))))} |->
        BNAnd(BNAnd(coherent, on_curve), MaskNot(gf_eq(p.z, ZERO)))])])

\* equality under the quotient: x_p y_q = y_p x_q, or y_p y_q = x_p x_q
point_eq(p, q) ==
    Let([succ \in {gf_eq(gf_mul(p.y, q.x), gf_mul(q.y, p.x))} |->
        BNOr(succ, gf_eq(gf_mul(p.y, q.y), gf_mul(q.x, p.x)))])

\* the equality test with the second term read as a sum:
\* x_p y_q = x_q y_p, or x_p x_q + y_p y_q = 0
point_eq_sum(p, q) ==
    Let([succ \in {gf_eq(gf_mul(p.x, q.y), gf_mul(q.x, p.y))} |->
        BNOr(succ, gf_eq(gf_add(gf_mul(p.x, q.x), gf_mul(p.y, q.y)), ZERO))])

(***************************************************************************)
(* The ristretto255 codec.                                                 *)
(***************************************************************************)
point_encode(p) ==
    Let([u1 \in {gf_mul(gf_add(p.z, p.y), gf_sub(p.z, p.y))} |->
    Let([u2 \in {gf_mul(p.x, p.y)} |->
    Let([invsqrt \in {gf_isr(gf_mul(u1, gf_sqr(u2)))[1]} |->
    Let([d1 \in {gf_mul(invsqrt, u1)} |->
    Let([d2 \in {gf_mul(invsqrt, u2)} |->
    Let([zinv \in {gf_mul(gf_mul(d1, d2), p.t)} |->
    Let([rotate \in {gf_lobit(gf_mul(p.t, zinv))} |->
    Let([x \in {gf_cond_sel(p.x, gf_mul_i(p.y), rotate)} |->
    Let([y0 \in {gf_cond_sel(p.y, gf_mul_i(p.x), rotate)} |->
    Let([den_inv \in {gf_cond_sel(d2, gf_mul(d1, INVSQRT_A_MINUS_D), rotate)} |->
    Let([y \in {gf_cond_neg(y0, gf_lobit(gf_mul(x, zinv)))} |->
    Let([s0 \in {gf_mul(den_inv, gf_sub(p.z, y))} |->
    Let([s \in {gf_cond_neg(s0, gf_lobit(s0))} |->
        gf_serialize(s, 1)])])])])])])])])])])])])])

\* point_decode: <<point, success mask>>
point_decode(ser, allow_identity) ==
    Let([des \in {gf_deserialize(ser, 1, 0)} |->
    Let([s \in {des[1]} |->
    Let([ss \in {gf_sqr(s)} |->
    Let([u1 \in {gf_sub(ONE, ss)} |->
    Let([u2 \in {gf_add(ONE, ss)} |->
    Let([u2_sqr \in {gf_sqr(u2)} |->
    Let([v \in {gf_sub(gf_sub(ZERO, gf_mul(EDWARDS_D, gf_sqr(u1))), u2_sqr)} |->
    Let([isr \in {gf_isr(gf_mul(v, u2_sqr))} |->
    Let([den_x \in {gf_mul(isr[1], u2)} |->
    Let([den_y \in {gf_mul(gf_mul(isr[1], den_x), v)} |->
    Let([x0 \in {gf_mul(gf_add(s, s), den_x)} |->
    Let([x \in {gf_cond_neg(x0, gf_lobit(x0))} |->
    Let([y \in {gf_mul(u1, den_y)} |->
    Let([t \in {gf_mul(x, y)} |->
        <<[x |-> x, y |-> y, z |-> ONE, t |-> t],
          BNAnd(BNAnd(BNAnd(des[2], MaskNot(gf_lobit(s))),
                      BNAnd(isr[2], MaskNot(gf_lobit(t)))),
                BNAnd(MaskNot(gf_eq(y, ZERO)),
                      BNOr(IF allow_identity THEN MASK_TRUE ELSE MASK_FALSE,
                           MaskNot(gf_eq(x, ZERO)))))>>])])])])])])])])])])])])])])

(***************************************************************************)
(* Return codes (ristretto255.h).                                          *)
(***************************************************************************)
RISTRETTO_SUCCESS == -1
RISTRETTO_FAILURE == 0

\* an int from 0 up as a number, and back
NatWord(n) == BNNorm(<<n % BASE, (n \div BASE) % BASE, n \div (BASE * BASE)>>)
WordNat(a) == BNDigit(a, 1) + BASE * (BNDigit(a, 2) + BASE * BNDigit(a, 3))

\* (ristretto_error_t)x of a word: ristretto_error_t is an enum with a
\* negative value, an int, and the cast keeps the low UINT_BITS bits of x
\* as a two's complement number
ristretto_succeed_if(x) ==
    IF BNBit(x, UINT_BITS - 1) = 1
    THEN (WordNat(BNLow(x, UINT_BITS - 1)) - 2 ^ (UINT_BITS - 2)) - 2 ^ (UINT_BITS - 2)
    ELSE WordNat(BNLow(x, UINT_BITS - 1))

\* (ristretto_word_t)e of an int: e modulo 2^64
WordOfInt(e) == IF e >= 0 THEN NatWord(e) ELSE BNSub(MASK_TRUE, NatWord(-(e + 1)))

\* a ^ b
WXor(a, b) == BNSub(BNOr(a, b), BNAnd(a, b))

\* ristretto_successful with w = (ristretto_word_t)e, not the exclusive or
\* of it with RISTRETTO_SUCCESS
ristretto_successful_noxor(e) ==
    Let([w \in {WordOfInt(e)} |->
        W64(BNShr(W128(BNSub(BNAdd(w, TWO128), BN(1))), WORD_BITS))])

\* w = ((word)e) ^ ((word)RISTRETTO_SUCCESS) as a dword; (w - 1) >> 64,
\* returned as a ristretto_bool_t
ristretto_successful(e) ==
    Let([w \in {WXor(WordOfInt(e), WordOfInt(RISTRETTO_SUCCESS))} |->
        W64(BNShr(W128(BNSub(BNAdd(w, TWO128), BN(1))), WORD_BITS))])

(***************************************************************************)
(* Scalars: integers modulo the group order l, kept reduced.  A scalar is  *)
(* serialized as SCALAR_BYTES little-endian bytes.                         *)
(***************************************************************************)
SCALAR_BYTES == 32
SCALAR_BITS == 253

\* the little-endian value of a byte string: digit j (from 0) is bits
\* 13j .. 13j+12, taken from the up to three bytes they lie in
scalar_decode_short(ser) ==
    LET B(i) == IF i < Len(ser) THEN ser[i + 1] ELSE 0
    IN  BNNorm([j \in 1..(((8 * Len(ser)) \div DIGIT_BITS) + 1) |->
            LET o == DIGIT_BITS * (j - 1)
                k == o \div 8
            IN  ((B(k) + 256 * B(k + 1) + 65536 * B(k + 2)) \div (2 ^ (o % 8))) % BASE])

\* the n little-endian bytes of a number below 2^(8n)
BNBytes(a, n) == SubSeq([k \in 1..n |-> BNBits(a, 8 * (k - 1), 8)], 1, n)

\* l - 2^252
SCALAR_LOW == BNSub(SCALAR_MODULUS, BNPow2(SCALAR_BITS - 1))

\* pos - neg mod l: 2^252 = -(l - 2^252) mod l moves the bits from 252 up
\* of either side to the other one, until both sides are below 2^252
RECURSIVE sc_reduce(_, _)
sc_reduce(pos, neg) ==
    Let([hp \in {BNShr(pos, SCALAR_BITS - 1)} |->
    Let([hn \in {BNShr(neg, SCALAR_BITS - 1)} |->
        IF Len(hp) = 0 /\ Len(hn) = 0
        THEN BNCondSub(BNSub(BNAdd(pos, SCALAR_MODULUS), neg), SCALAR_MODULUS)
        ELSE Let([p1 \in {BNAdd(BNLow(pos, SCALAR_BITS - 1), BNMul(hn, SCALAR_LOW))} |->
             Let([n1 \in {BNAdd(BNLow(neg, SCALAR_BITS - 1), BNMul(hp, SCALAR_LOW))} |->
                 sc_reduce(p1, n1)])])])])

scalar_zero == BNZero
scalar_one == <<1>>

scalar_add(a, b) == sc_reduce(BNAdd(a, b), BNZero)
scalar_sub(a, b) == sc_reduce(a, b)
scalar_mul(a, b) == Let([prod \in {BNMul(a, b)} |-> sc_reduce(prod, BNZero)])
scalar_eq(a, b) == IF sc_reduce(a, b) = BNZero THEN MASK_TRUE ELSE MASK_FALSE

\* a / 2 mod l: l is added to an odd a before the shift
scalar_halve(a) == BNShr(IF BNIsOdd(a) THEN BNAdd(a, SCALAR_MODULUS) ELSE a, 1)

\* scalar_decode that accepts the modulus itself
scalar_decode_leq(ser) ==
    Let([v \in {scalar_decode_short(ser)} |->
        <<scalar_mul(v, scalar_one),
          IF BNLeq(v, SCALAR_MODULUS) THEN MASK_TRUE ELSE MASK_FALSE>>])

\* scalar_decode that takes the modulus off once
scalar_decode_once(ser) ==
    Let([v \in {scalar_decode_short(ser)} |->
        <<IF BNLess(v, SCALAR_MODULUS) THEN v ELSE BNSub(v, SCALAR_MODULUS),
          IF BNLess(v, SCALAR_MODULUS) THEN MASK_TRUE ELSE MASK_FALSE>>])

\* scalar_decode: <<s, succ>>.  succ is the borrow of value - l; s is the
\* value reduced, whatever succ is
scalar_decode(ser) ==
    Let([v \in {scalar_decode_short(ser)} |->
        <<scalar_mul(v, scalar_one),
          IF BNLess(v, SCALAR_MODULUS) THEN MASK_TRUE ELSE MASK_FALSE>>])

scalar_encode(s) == BNBytes(s, SCALAR_BYTES)

\* a chunk of scalar_decode_long that shifts the chunk instead of t1
scalar_decode_long_chunk_swapped(st) ==
    Let([hi \in {scalar_mul(scalar_decode(SubSeq(st.ser, st.i - SCALAR_BYTES + 1, st.i))[1],
                            BNPow2(8 * SCALAR_BYTES))} |->
        [st EXCEPT !.i = st.i - SCALAR_BYTES, !.t1 = scalar_add(hi, st.t1)]])

\* one chunk of scalar_decode_long below the top one: t1 <- t1 2^256 + chunk
scalar_decode_long_chunk(st) ==
    Let([hi \in {scalar_mul(st.t1, BNPow2(8 * SCALAR_BYTES))} |->
    Let([t2 \in {scalar_decode(SubSeq(st.ser, st.i - SCALAR_BYTES + 1, st.i))[1]} |->
        [st EXCEPT !.i = st.i - SCALAR_BYTES, !.t1 = scalar_add(hi, t2)]])])

\* scalar_decode_long: the top chunk is what the whole chunks below it
\* leave, a whole chunk itself when ser_len is a multiple of SCALAR_BYTES
scalar_decode_long(ser) ==
    IF Len(ser) = 0 THEN scalar_zero
    ELSE LET m  == Len(ser) - (Len(ser) % SCALAR_BYTES)
             i0 == IF m = Len(ser) THEN m - SCALAR_BYTES ELSE m
         IN  Let([top \in {scalar_decode_short(SubSeq(ser, i0 + 1, Len(ser)))} |->
             Let([st \in {Iterate(scalar_decode_long_chunk,
                            [ser |-> ser, i |-> i0, t1 |-> top], i0 \div SCALAR_BYTES)} |->
                 scalar_mul(st.t1, scalar_one)])])

\* one bit of the exponent l - 2, most significant first: square, and
\* multiply by the saved copy of a where the bit is set
scalar_invert_bit(st) ==
    Let([sq \in {scalar_mul(st.mem[st.out], st.mem[st.out])} |->
    Let([v \in {IF BNBit(BNSub(SCALAR_MODULUS, <<2>>), st.i) = 1
           THEN scalar_mul(sq, st.precmp) ELSE sq} |->
        [st EXCEPT !.mem = [st.mem EXCEPT ![st.out] = v], !.i = st.i - 1]])])

\* scalar_invert that reads a where it lies while out is being written
scalar_invert_bit_inplace(st) ==
    Let([sq \in {scalar_mul(st.mem[st.out], st.mem[st.out])} |->
    Let([v \in {IF BNBit(BNSub(SCALAR_MODULUS, <<2>>), st.i) = 1
           THEN scalar_mul(sq, st.mem[st.a]) ELSE sq} |->
        [st EXCEPT !.mem = [st.mem EXCEPT ![st.out] = v], !.i = st.i - 1]])])

scalar_invert_inplace(mem, out, a) ==
    Let([st \in {Iterate(scalar_invert_bit_inplace,
                   [mem |-> [mem EXCEPT ![out] = scalar_one], out |-> out,
                    a |-> a, i |-> SCALAR_BITS - 1],
                   SCALAR_BITS)} |->
        <<st.mem, MaskNot(scalar_eq(st.mem[out], scalar_zero))>>])

\* scalar_invert(out, a) over the scalar objects mem, out and a being
\* indices that may be equal: <<mem, succ>>
scalar_invert(mem, out, a) ==
    Let([st \in {Iterate(scalar_invert_bit,
                   [mem |-> [mem EXCEPT ![out] = scalar_one], out |-> out,
                    precmp |-> mem[a], i |-> SCALAR_BITS - 1],
                   SCALAR_BITS)} |->
        <<st.mem, MaskNot(scalar_eq(st.mem[out], scalar_zero))>>])

\* x mod m by binary long division: the reference the scalar operations
\* are compared with
BNModStep(st) ==
    Let([t \in {BNShl(st.m, st.i)} |->
        [st EXCEPT !.x = IF BNLess(st.x, t) THEN st.x ELSE BNSub(st.x, t), !.i = st.i - 1]])

BNMod(x, m) ==
    LET top == BNMax(0, DIGIT_BITS * (Len(x) - Len(m) + 1))
    IN  Iterate(BNModStep, [x |-> x, m |-> m, i |-> top], top + 1).x

(***************************************************************************)
(* Variable-base scalar multiplication with signed odd digits of WINDOW    *)
(* bits and a table of the odd multiples of the point.                     *)
(***************************************************************************)
WINDOW == 5

\* the number of digits, the table size and the bit the top digit starts at
WINDOW_DIGITS == (SCALAR_BITS + WINDOW) \div WINDOW
NTABLE == 2 ^ (WINDOW - 1)
WINDOW_TOP == SCALAR_BITS - ((SCALAR_BITS - 1) % WINDOW) - 1

\* 2^(WINDOW * WINDOW_DIGITS) - 1 mod l: the digits 2 b - (2^WINDOW - 1) of
\* the windows b of (scalar + adjustment) / 2 sum to the scalar
point_scalarmul_adjustment ==
    sc_reduce(BNSub(BNPow2(WINDOW * WINDOW_DIGITS), <<1>>), BNZero)

point_cond_sel(a, b, pick_b) ==
    [x |-> gf_cond_sel(a.x, b.x, pick_b), y |-> gf_cond_sel(a.y, b.y, pick_b),
     z |-> gf_cond_sel(a.z, b.z, pick_b), t |-> gf_cond_sel(a.t, b.t, pick_b)]

\* the table <<b, 3 b, 5 b, ..., (2 ntable - 1) b>>
prepare_fixed_window(b, ntable) ==
    Let([b2 \in {point_double(b)} |->
        Iterate(LAMBDA t : Let([n \in {point_add(t[Len(t)], b2)} |-> Append(t, n)]),
                <<b>>, ntable - 1)])

\* entry idx (from 0) of the table: every entry is visited and the one
\* whose index matches is kept under its mask
RECURSIVE constant_time_sweep(_, _, _, _)
constant_time_sweep(table, idx, j, out) ==
    IF j = Len(table) THEN out
    ELSE Let([o \in {point_cond_sel(out, table[j + 1], word_is_zero(WSub(BN(idx), BN(j))))} |-> constant_time_sweep(table, idx, j + 1, o)])

constant_time_lookup(table, idx) ==
    constant_time_sweep(table, idx, 0, [x |-> ZERO, y |-> ZERO, z |-> ZERO, t |-> ZERO])

\* the scalar made ready for the digit loop, the table and the accumulator
point_scalarmul_start(b, scalar) ==
    [scalar1x  |-> scalar_halve(scalar_add(scalar, point_scalarmul_adjustment)),
     multiples |-> prepare_fixed_window(b, NTABLE),
     i         |-> WINDOW_TOP,
     tmp       |-> point_identity]

\* a digit step that leaves out the conditional negation of the table entry
point_scalarmul_digit_nonegate(st) ==
    LET bits == BNBits(st.scalar1x, st.i, WINDOW)
        idx  == (IF bits \div NTABLE = 0 THEN (2 ^ WINDOW) - 1 - bits ELSE bits) % NTABLE
    IN  Let([e \in {constant_time_lookup(st.multiples, idx)} |->
        Let([dbl \in {Iterate(point_double, st.tmp, WINDOW)} |->
        Let([sum \in {point_add(dbl, e)} |->
            [st EXCEPT !.tmp = sum, !.i = st.i - WINDOW]])])])

\* one digit: the window at bit i, its sign and table index, WINDOW
\* doublings and the addition of the signed table entry
point_scalarmul_digit(st) ==
    LET bits == BNBits(st.scalar1x, st.i, WINDOW)
        inv  == IF bits \div NTABLE = 0 THEN MASK_TRUE ELSE MASK_FALSE
        idx  == (IF bits \div NTABLE = 0 THEN (2 ^ WINDOW) - 1 - bits ELSE bits) % NTABLE
    IN  Let([e \in {constant_time_lookup(st.multiples, idx)} |->
        Let([pn \in {point_cond_sel(e, point_negate(e), inv)} |->
        Let([dbl \in {Iterate(point_double, st.tmp, WINDOW)} |->
        Let([sum \in {point_add(dbl, pn)} |->
            [st EXCEPT !.tmp = sum, !.i = st.i - WINDOW]])])])])

point_scalarmul(b, scalar) ==
    Iterate(point_scalarmul_digit, point_scalarmul_start(b, scalar), WINDOW_DIGITS).tmp

\* scalar * b by doubling and adding over the bits of the scalar, most
\* significant first: the reference point_scalarmul is compared with
point_mul_bit(st) ==
    Let([d \in {point_double(st.acc)} |->
    Let([a \in {IF BNBit(st.scalar, st.i) = 1 THEN point_add(d, st.b) ELSE d} |->
        [st EXCEPT !.acc = a, !.i = st.i - 1]])])

point_mul_bits(b, scalar) ==
    Iterate(point_mul_bit,
            [b |-> b, scalar |-> scalar, i |-> DIGIT_BITS * Len(scalar) - 1,
             acc |-> point_identity],
            DIGIT_BITS * Len(scalar)).acc

(***************************************************************************)
(* The library is stateless: the state is that of a caller, the objects    *)
(* it passes to the calls and what the calls return.                       *)
(***************************************************************************)
VARIABLES
    pc,              \* where the caller is
    ser,             \* the bytes of the encoded p, or the bytes to decode
    allow_identity,  \* the flag passed to point_decode
    p, q,            \* a point, and another representative of it
    mult,            \* p is mult times the base point
    torques, factor, \* q is p after so many torques, scaled by Factor(factor)
    ser_q,           \* the bytes of the encoded q, or of the encoded dec
    dec, ret,        \* what point_decode wrote and returned
    eq_dec, eq_q,    \* point_eq(dec, q), point_eq(q, p)
    eq_sum,          \* the equality test of q and p with its second term a sum
    sc_ser,          \* the bytes passed to scalar_decode, scalar_decode_long
    mem,             \* two scalar objects
    sc_dst,          \* the object scalar_invert wrote to
    sc_a,            \* the scalar scalar_invert was given
    sc_ret, sc_out,  \* what the scalar call returned, scalar_encode's bytes
    mul_in,          \* the point and the scalar passed to point_scalarmul
    mul_st,          \* point_scalarmul's locals
    mul_ref, mul_eq, \* the reference product and point_eq of the result with it
    call,            \* the function of the back-end or header that was called
    arg, res,        \* what it was given, and what it wrote and returned
    acc, acc_val,    \* a field element under a run of operations, its residue
    ops,             \* the number of operations acc went through
    shared,          \* the objects two threads share
    threads          \* the position and the locals of each thread

codec_vars == <<ser, allow_identity, p, q, mult, torques, factor, ser_q, dec, ret,
                eq_dec, eq_q, eq_sum>>
scalar_vars == <<sc_ser, mem, sc_dst, sc_a, sc_ret, sc_out>>
mul_vars == <<mul_in, mul_st, mul_ref, mul_eq>>
field_vars == <<call, arg, res, acc, acc_val, ops, shared, threads>>
vars == <<pc, codec_vars, scalar_vars, mul_vars, field_vars>>

\* bounds of the runs
MaxMult == 2
MaxTorque == 7
MaxFactor == 1
MaxSmallInput == 8
MaxMultiple == 15
MaxLongLen == 66
MaxMulInput == 3

CodecIdle ==
    /\ ser = <<>> /\ allow_identity = TRUE
    /\ p = point_identity /\ q = point_identity
    /\ mult = 0 /\ torques = 0 /\ factor = 0
    /\ ser_q = <<>> /\ dec = point_identity /\ ret = RISTRETTO_FAILURE
    /\ eq_dec = MASK_FALSE /\ eq_q = MASK_FALSE /\ eq_sum = MASK_FALSE

ScalarIdle ==
    /\ sc_ser = <<>> /\ mem = <<scalar_zero, scalar_zero>>
    /\ sc_dst = 1 /\ sc_a = scalar_zero
    /\ sc_ret = RISTRETTO_FAILURE /\ sc_out = <<>>

MulIdle ==
    /\ mul_in = [b |-> point_identity, scalar |-> scalar_zero]
    /\ mul_st = [scalar1x |-> scalar_zero, multiples |-> <<>>, i |-> 0, tmp |-> point_identity]
    /\ mul_ref = point_identity /\ mul_eq = MASK_FALSE

FieldIdle ==
    /\ call = "" /\ arg = <<>> /\ res = <<>>
    /\ acc = ZERO /\ acc_val = BNZero /\ ops = 0
    /\ shared = <<>> /\ threads = <<>>

(***************************************************************************)
(* Round trips of points: p runs over the multiples of the base point, q   *)
(* over its other representatives.                                         *)
(***************************************************************************)
\* the bytes of the factor passed to point_debugging_pscale
Factor(f) ==
    [i \in 1..SER_BYTES |->
        IF i < SER_BYTES THEN (89 * f + 7 * f * (i - 1)) % 256 ELSE f % 64]

Init ==
    /\ pc = "fresh"
    /\ CodecIdle /\ ScalarIdle /\ MulIdle /\ FieldIdle

\* ristretto255_point_encode(ser, p)
PointEncode ==
    /\ pc = "fresh"
    /\ ser' = point_encode(p)
    /\ pc' = "encoded"
    /\ UNCHANGED <<allow_identity, p, q, mult, torques, factor, ser_q, dec, ret,
                   eq_dec, eq_q, eq_sum, scalar_vars, mul_vars, field_vars>>

\* ristretto255_point_decode(dec, ser, allow_identity)
PointDecode ==
    /\ pc = "encoded"
    /\ \E r \in {point_decode(ser, allow_identity)} :
        /\ dec' = r[1]
        /\ ret' = ristretto_succeed_if(r[2])
    /\ pc' = "ready"
    /\ UNCHANGED <<ser, allow_identity, p, q, mult, torques, factor, ser_q,
                   eq_dec, eq_q, eq_sum, scalar_vars, mul_vars, field_vars>>

\* ristretto255_point_add(p, p, ristretto255_point_base), q a copy of it
PointAddBase ==
    /\ pc = "ready" /\ torques = 0 /\ factor = 0
    /\ mult < MaxMult
    /\ \E r \in {point_add(p, point_base)} : p' = r /\ q' = r
    /\ mult' = mult + 1
    /\ pc' = "fresh"
    /\ UNCHANGED <<ser, allow_identity, torques, factor, ser_q, dec, ret,
                   eq_dec, eq_q, eq_sum, scalar_vars, mul_vars, field_vars>>

\* ristretto255_point_debugging_torque(q, q)
PointTorque ==
    /\ pc = "ready"
    /\ torques < MaxTorque
    /\ q' = point_debugging_torque(q)
    /\ torques' = torques + 1
    /\ UNCHANGED <<pc, ser, allow_identity, p, mult, factor, ser_q, dec, ret,
                   eq_dec, eq_q, eq_sum, scalar_vars, mul_vars, field_vars>>

\* ristretto255_point_debugging_pscale(q, q, Factor(f))
PointPscale ==
    /\ pc = "ready" /\ factor = 0
    /\ \E f \in 1..MaxFactor :
        /\ q' = point_debugging_pscale(q, Factor(f))
        /\ factor' = f
    /\ UNCHANGED <<pc, ser, allow_identity, p, mult, torques, ser_q, dec, ret,
                   eq_dec, eq_q, eq_sum, scalar_vars, mul_vars, field_vars>>

\* ristretto255_point_encode(ser_q, q)
PointEncodeQ ==
    /\ pc = "ready"
    /\ ser_q' = point_encode(q)
    /\ pc' = "q_encoded"
    /\ UNCHANGED <<ser, allow_identity, p, q, mult, torques, factor, dec, ret,
                   eq_dec, eq_q, eq_sum, scalar_vars, mul_vars, field_vars>>

\* ristretto255_point_eq(dec, q) and ristretto255_point_eq(q, p)
PointEq ==
    /\ pc = "q_encoded"
    /\ eq_dec' = point_eq(dec, q)
    /\ eq_q' = point_eq(q, p)
    /\ eq_sum' = point_eq_sum(q, p)
    /\ pc' = "compared"
    /\ UNCHANGED <<ser, allow_identity, p, q, mult, torques, factor, ser_q, dec, ret,
                   scalar_vars, mul_vars, field_vars>>

Next ==
    \/ PointEncode
    \/ PointDecode
    \/ PointAddBase
    \/ PointTorque
    \/ PointPscale
    \/ PointEncodeQ
    \/ PointEq

Spec == Init /\ [][Next]_vars

(***************************************************************************)
(* Decoding bytes from outside: small values, values around p, encodings  *)
(* of points, and each of them with the top bit set.                       *)
(***************************************************************************)
WithTopBit(b) == [b EXCEPT ![SER_BYTES] = (b[SER_BYTES] % 128) + 128]

DecodeInputs ==
    LET low == {BNBytes(BN(v), SER_BYTES) : v \in 0..MaxSmallInput}
        top == {BNBytes(v, SER_BYTES) :
                   v \in {BNSub(P25519, <<3>>), BNSub(P25519, <<1>>), P25519,
                          BNAdd(P25519, <<4>>), BNSub(BNPow2(255), <<1>>)}}
        enc == {point_encode(point_base)}
        all == low \cup top \cup enc
    IN  all \cup {WithTopBit(b) : b \in all}

InitDecode ==
    /\ pc = "input"
    /\ ser \in DecodeInputs
    /\ allow_identity \in BOOLEAN
    /\ p = point_identity /\ q = point_identity
    /\ mult = 0 /\ torques = 0 /\ factor = 0
    /\ ser_q = <<>> /\ dec = point_identity /\ ret = RISTRETTO_FAILURE
    /\ eq_dec = MASK_FALSE /\ eq_q = MASK_FALSE /\ eq_sum = MASK_FALSE
    /\ ScalarIdle /\ MulIdle /\ FieldIdle

\* ristretto255_point_decode(dec, ser, allow_identity)
DecodeBytes ==
    /\ pc = "input"
    /\ \E r \in {point_decode(ser, allow_identity)} :
        /\ dec' = r[1]
        /\ ret' = ristretto_succeed_if(r[2])
    /\ pc' = "decoded"
    /\ UNCHANGED <<ser, allow_identity, p, q, mult, torques, factor, ser_q,
                   eq_dec, eq_q, eq_sum, scalar_vars, mul_vars, field_vars>>

\* ristretto255_point_encode(ser_q, dec), after a successful decode
EncodeDecoded ==
    /\ pc = "decoded"
    /\ ret = RISTRETTO_SUCCESS
    /\ ser_q' = point_encode(dec)
    /\ pc' = "reencoded"
    /\ UNCHANGED <<ser, allow_identity, p, q, mult, torques, factor, dec, ret,
                   eq_dec, eq_q, eq_sum, scalar_vars, mul_vars, field_vars>>

NextDecode ==
    \/ DecodeBytes
    \/ EncodeDecoded

SpecDecode == InitDecode /\ [][NextDecode]_vars

(***************************************************************************)
(* Scalars from bytes: 32 bytes around the multiples of l, and strings of  *)
(* every length up to MaxLongLen.                                          *)
(***************************************************************************)
ScalarInputs ==
    LET top  == BNPow2(8 * SCALAR_BYTES)
        near == {BNAdd(BNMulSmall(SCALAR_MODULUS, k), BN(d)) : k \in 0..MaxMultiple, d \in 0..3}
        vals == {BNSub(v, <<1>>) : v \in {w \in near : Len(w) > 0}} \cup {BNSub(top, <<1>>)}
    IN  {BNBytes(v, SCALAR_BYTES) : v \in {w \in vals : BNLess(w, top)}}

\* byte i (from 1) of the k-th string of bytes
LongByte(k, i) == IF k = 0 THEN 255 ELSE (37 * i + 101 * k + ((i * i) % 11)) % 256

LongInputs == {[i \in 1..n |-> LongByte(k, i)] : n \in 0..MaxLongLen, k \in 0..1}

InitScalar ==
    /\ pc = "sc_input"
    /\ sc_ser \in ScalarInputs \cup LongInputs
    /\ mem = <<scalar_zero, scalar_zero>>
    /\ sc_dst = 1 /\ sc_a = scalar_zero
    /\ sc_ret = RISTRETTO_FAILURE /\ sc_out = <<>>
    /\ CodecIdle /\ MulIdle /\ FieldIdle

\* ristretto255_scalar_decode(&mem[1], sc_ser)
ScalarDecode ==
    /\ pc = "sc_input"
    /\ Len(sc_ser) = SCALAR_BYTES
    /\ \E r \in {scalar_decode(sc_ser)} :
        /\ mem' = [mem EXCEPT ![1] = r[1]]
        /\ sc_ret' = ristretto_succeed_if(r[2])
    /\ pc' = "sc_decoded"
    /\ UNCHANGED <<sc_ser, sc_dst, sc_a, sc_out, codec_vars, mul_vars, field_vars>>

\* ristretto255_scalar_decode_long(&mem[1], sc_ser, Len(sc_ser))
ScalarDecodeLong ==
    /\ pc = "sc_input"
    /\ mem' = [mem EXCEPT ![1] = scalar_decode_long(sc_ser)]
    /\ pc' = "sc_long_decoded"
    /\ UNCHANGED <<sc_ser, sc_dst, sc_a, sc_ret, sc_out, codec_vars, mul_vars, field_vars>>

\* ristretto255_scalar_encode(sc_out, &mem[1])
ScalarEncode ==
    /\ pc = "sc_decoded"
    /\ sc_out' = scalar_encode(mem[1])
    /\ pc' = "sc_encoded"
    /\ UNCHANGED <<sc_ser, mem, sc_dst, sc_a, sc_ret, codec_vars, mul_vars, field_vars>>

\* ristretto255_scalar_invert(&mem[out], &mem[1]) on a canonical scalar;
\* out = 1 is the call with out and a the same object
ScalarInvert ==
    /\ pc = "sc_encoded"
    /\ sc_ret = RISTRETTO_SUCCESS
    /\ \E out \in 1..2 :
        \E r \in {scalar_invert(mem, out, 1)} :
            /\ mem' = r[1]
            /\ sc_ret' = ristretto_succeed_if(r[2])
            /\ sc_dst' = out
    /\ sc_a' = mem[1]
    /\ pc' = "sc_inverted"
    /\ UNCHANGED <<sc_ser, sc_out, codec_vars, mul_vars, field_vars>>

NextScalar ==
    \/ ScalarDecode
    \/ ScalarDecodeLong
    \/ ScalarEncode
    \/ ScalarInvert

SpecScalar == InitScalar /\ [][NextScalar]_vars

(***************************************************************************)
(* ristretto255_point_scalarmul, one action per signed digit, then the     *)
(* comparison of its result with the double-and-add product.               *)
(***************************************************************************)
MulScalar(k) ==
    CASE k = 1 -> scalar_zero
      [] k = 2 -> scalar_one
      [] k = 3 -> BNAdd(BNPow2(SCALAR_BITS - 1), <<3>>)
      [] OTHER -> BNSub(SCALAR_MODULUS, BN(k - 3))

MulPoint(k) ==
    IF k % 2 = 0 THEN point_debugging_torque(point_double(point_base)) ELSE point_base

InitMul ==
    /\ pc = "mul_input"
    /\ \E k \in 1..MaxMulInput : mul_in = [b |-> MulPoint(k), scalar |-> MulScalar(k)]
    /\ mul_st = [scalar1x |-> scalar_zero, multiples |-> <<>>, i |-> 0, tmp |-> point_identity]
    /\ mul_ref = point_identity /\ mul_eq = MASK_FALSE
    /\ CodecIdle /\ ScalarIdle /\ FieldIdle

\* the recoding of the scalar and the table of odd multiples
MulStart ==
    /\ pc = "mul_input"
    /\ mul_st' = point_scalarmul_start(mul_in.b, mul_in.scalar)
    /\ pc' = "mul_run"
    /\ UNCHANGED <<mul_in, mul_ref, mul_eq, codec_vars, scalar_vars, field_vars>>

\* one pass of the digit loop
MulDigit ==
    /\ pc = "mul_run"
    /\ mul_st.i >= 0
    /\ mul_st' = point_scalarmul_digit(mul_st)
    /\ UNCHANGED <<pc, mul_in, mul_ref, mul_eq, codec_vars, scalar_vars, field_vars>>

\* the loop is over: ristretto255_point_eq of the result with the reference
MulCheck ==
    /\ pc = "mul_run"
    /\ mul_st.i < 0
    /\ \E r \in {point_mul_bits(mul_in.b, mul_in.scalar)} :
        /\ mul_ref' = r
        /\ mul_eq' = point_eq(mul_st.tmp, r)
    /\ pc' = "mul_done"
    /\ UNCHANGED <<mul_in, mul_st, codec_vars, scalar_vars, field_vars>>

NextMul ==
    \/ MulStart
    \/ MulDigit
    \/ MulCheck

SpecMul == InitMul /\ [][NextMul]_vars

(***************************************************************************)
(* Properties of the point codec.                                          *)
(***************************************************************************)
ZeroSerial == [i \in 1..SER_BYTES |-> 0]

C4_TopBitRejected ==
    pc # "input" /\ ser[SER_BYTES] >= 128 => ret = RISTRETTO_FAILURE

C4_Witness ==
    /\ pc = "decoded" /\ ser[SER_BYTES] >= 128 /\ ser[1] > MaxSmallInput
    /\ allow_identity /\ ret = RISTRETTO_FAILURE

\* C5: on 32 zero bytes point_decode succeeds exactly when allow_identity is
\* true; the decoded x is zero
C5_ZerosIffAllowIdentity ==
    pc # "input" /\ ser = ZeroSerial =>
        /\ ret = RISTRETTO_SUCCESS <=> allow_identity
        /\ gf_eq(dec.x, ZERO) = MASK_TRUE

C5_Witness ==
    /\ pc = "decoded" /\ ser = ZeroSerial
    /\ ~allow_identity /\ ret = RISTRETTO_FAILURE

(***************************************************************************)
(* Properties of the scalar operations.  LEValue and BNMod are the         *)
(* references: the little-endian value of the bytes, byte by byte, and the *)
(* remainder by long division.                                             *)
(***************************************************************************)
\* the little-endian value of bytes lo..hi, by halves
RECURSIVE LEValueRange(_, _, _)
LEValueRange(b, lo, hi) ==
    IF lo > hi THEN BNZero
    ELSE IF lo = hi THEN BN(b[lo])
    ELSE Let([low \in {LEValueRange(b, lo, (lo + hi) \div 2)} |->
         Let([high \in {LEValueRange(b, ((lo + hi) \div 2) + 1, hi)} |->
             BNAdd(low, BNShl(high, 8 * (((lo + hi) \div 2) - lo + 1)))])])

LEValue(b) == LEValueRange(b, 1, Len(b))

ScalarDecoded == pc \in {"sc_decoded", "sc_encoded"}

\* C6: scalar_decode succeeds exactly when the 32 bytes, little-endian, are
\* below l, the output is then that value, and scalar_encode gives the bytes
\* back exactly when they are below l
C6_DecodeCanonical ==
    /\ ScalarDecoded =>
        /\ sc_ret = RISTRETTO_SUCCESS <=> BNLess(LEValue(sc_ser), SCALAR_MODULUS)
        /\ sc_ret = RISTRETTO_SUCCESS => mem[1] = LEValue(sc_ser)
    /\ pc = "sc_encoded" =>
        (sc_out = sc_ser <=> BNLess(LEValue(sc_ser), SCALAR_MODULUS))

C6_Witness ==
    /\ pc = "sc_encoded" /\ sc_ret = RISTRETTO_SUCCESS
    /\ LEValue(sc_ser) = BNSub(SCALAR_MODULUS, <<1>>)
    /\ sc_out = sc_ser

\* C7: on 32 bytes whose value s is l or more, up to 2^256 - 1, scalar_decode
\* fails and its output is below l and equal to s mod l
C7_DecodeReduces ==
    ScalarDecoded /\ ~BNLess(LEValue(sc_ser), SCALAR_MODULUS) =>
        /\ sc_ret = RISTRETTO_FAILURE
        /\ BNLess(mem[1], SCALAR_MODULUS)
        /\ mem[1] = BNMod(LEValue(sc_ser), SCALAR_MODULUS)

C7_Witness ==
    /\ pc = "sc_decoded" /\ sc_ret = RISTRETTO_FAILURE
    /\ \A i \in 1..SCALAR_BYTES : sc_ser[i] = 255
    /\ BNLess(mem[1], SCALAR_MODULUS)

\* C8: scalar_invert of zero writes zero and fails; of a non-zero canonical
\* a it succeeds with a * out = 1 mod l, also when out is the object a
C8_Invert ==
    pc = "sc_inverted" =>
        IF sc_a = scalar_zero
        THEN mem[sc_dst] = scalar_zero /\ sc_ret = RISTRETTO_FAILURE
        ELSE /\ sc_ret = RISTRETTO_SUCCESS
             /\ BNLess(mem[sc_dst], SCALAR_MODULUS)
             /\ BNMod(BNMul(sc_a, mem[sc_dst]), SCALAR_MODULUS) = <<1>>

C8_Witness ==
    /\ pc = "sc_inverted" /\ sc_dst = 1
    /\ sc_a = <<2>> /\ sc_ret = RISTRETTO_SUCCESS
    /\ mem[1] # <<2>>

\* C10: for bytes of every length, scalar_decode_long gives the scalar below
\* l that is the little-endian value of all the bytes mod l
C10_DecodeLong ==
    pc = "sc_long_decoded" =>
        /\ BNLess(mem[1], SCALAR_MODULUS)
        /\ mem[1] = BNMod(LEValue(sc_ser), SCALAR_MODULUS)

C10_Witness ==
    /\ pc = "sc_long_decoded" /\ Len(sc_ser) = 2 * SCALAR_BYTES + 1
    /\ sc_ser[1] # 255 /\ mem[1] # scalar_zero

(***************************************************************************)
(* Properties of the scalar multiplication.                                *)
(***************************************************************************)
\* C9: the windowed point_scalarmul of a canonical scalar s and a valid point
\* P gives a point equal to s P (the double-and-add product); s = 0 gives
\* the identity and s = 1 gives P
C9_ScalarMul ==
    pc = "mul_done" =>
        /\ mul_eq = MASK_TRUE
        /\ mul_in.scalar = scalar_zero => point_eq(mul_st.tmp, point_identity) = MASK_TRUE
        /\ mul_in.scalar = scalar_one => point_eq(mul_st.tmp, mul_in.b) = MASK_TRUE

C9_Witness ==
    /\ pc = "mul_done" /\ Len(mul_in.scalar) > 1
    /\ mul_eq = MASK_TRUE /\ point_valid(mul_st.tmp) = MASK_TRUE
    /\ point_eq(mul_st.tmp, point_identity) = MASK_FALSE

(***************************************************************************)
(* Return codes: ristretto_successful on error codes, and on the codes     *)
(* ristretto_succeed_if makes of a mask.                                   *)
(***************************************************************************)
MaxErr == 40

\* the codes around the two of the enum, and the ends of the range of an int
ErrorCodes ==
    (-MaxErr..MaxErr) \cup {2147483647, -2147483647, -2147483647 - 1}

InitErr ==
    /\ pc = "err_input"
    /\ CodecIdle /\ ScalarIdle /\ MulIdle
    /\ call = "" /\ res = <<>>
    /\ \E e \in ErrorCodes, m \in {MASK_FALSE, MASK_TRUE} : arg = [e |-> e, m |-> m]
    /\ acc = ZERO /\ acc_val = BNZero /\ ops = 0
    /\ shared = <<>> /\ threads = <<>>

\* ristretto_successful(e)
Successful ==
    /\ pc = "err_input"
    /\ call' = "ristretto_successful"
    /\ res' = [e |-> arg.e, ok |-> ristretto_successful(arg.e)]
    /\ pc' = "err_tested"
    /\ UNCHANGED <<codec_vars, scalar_vars, mul_vars, arg, acc, acc_val, ops, shared, threads>>

\* e = ristretto_succeed_if(m)
SucceedIf ==
    /\ pc = "err_input"
    /\ call' = "ristretto_succeed_if"
    /\ res' = [e |-> ristretto_succeed_if(arg.m), ok |-> MASK_FALSE]
    /\ pc' = "err_made"
    /\ UNCHANGED <<codec_vars, scalar_vars, mul_vars, arg, acc, acc_val, ops, shared, threads>>

\* ristretto_successful(e) of the code made
SuccessfulOfMade ==
    /\ pc = "err_made"
    /\ call' = "ristretto_successful"
    /\ res' = [res EXCEPT !.ok = ristretto_successful(res.e)]
    /\ pc' = "err_round"
    /\ UNCHANGED <<codec_vars, scalar_vars, mul_vars, arg, acc, acc_val, ops, shared, threads>>

NextErr ==
    \/ Successful
    \/ SucceedIf
    \/ SuccessfulOfMade

SpecErr == InitErr /\ [][NextErr]_vars

\* C11: RISTRETTO_SUCCESS is the all-ones word and RISTRETTO_FAILURE the
\* all-zeros word; ristretto_successful(e) is the all-ones word when e is
\* RISTRETTO_SUCCESS and the all-zeros word for every other e; and
\* ristretto_successful(ristretto_succeed_if(m)) is m for the masks m = 0
\* and m = all ones.
C11_ReturnCodes ==
    /\ WordOfInt(RISTRETTO_SUCCESS) = MASK_TRUE
    /\ WordOfInt(RISTRETTO_FAILURE) = MASK_FALSE
    /\ pc = "err_tested" =>
        res.ok = (IF arg.e = RISTRETTO_SUCCESS THEN MASK_TRUE ELSE MASK_FALSE)
    /\ pc = "err_made" =>
        res.e = (IF arg.m = MASK_TRUE THEN RISTRETTO_SUCCESS ELSE RISTRETTO_FAILURE)
    /\ pc = "err_round" => res.ok = arg.m

C11_Witness ==
    /\ pc = "err_round" /\ arg.m = MASK_TRUE
    /\ res.e = RISTRETTO_SUCCESS /\ res.ok = MASK_TRUE

(***************************************************************************)
(* Two runs of one function of the field back-end on different data, with  *)
(* the same public parameters, and the steps each run executes.            *)
(***************************************************************************)
MaxRunInput == 5

\* field elements: 0, 1, p - 1, the largest limbs gf_add and gf_sub take,
\* sqrt(-1), and a small one
RunElement(k) ==
    CASE k = 1 -> ZERO
      [] k = 2 -> ONE
      [] k = 3 -> [MODULUS EXCEPT ![1] = BNSub(MODULUS[1], <<1>>)]
      [] k = 4 -> [i \in 1..RISTRETTO255_FIELD_LIMBS |-> BNSub(BNPow2(LIMB_PLACE_VALUE + 1), <<1>>)]
      [] k = 5 -> SQRT_MINUS_ONE
      [] OTHER -> gf_limbs(BN(k))

\* serials: 0, 1, p - 1, 2^256 - 1, p, and a small one
RunSerial(k) ==
    CASE k = 1 -> ZeroSerial
      [] k = 2 -> [ZeroSerial EXCEPT ![1] = 1]
      [] k = 3 -> [i \in 1..SER_BYTES |-> IF i = 1 THEN 236 ELSE IF i = SER_BYTES THEN 127 ELSE 255]
      [] k = 4 -> [i \in 1..SER_BYTES |-> 255]
      [] k = 5 -> [i \in 1..SER_BYTES |-> IF i = 1 THEN 237 ELSE IF i = SER_BYTES THEN 127 ELSE 255]
      [] OTHER -> [ZeroSerial EXCEPT ![1] = k]

InitRuns ==
    /\ pc = "runs_input"
    /\ CodecIdle /\ ScalarIdle /\ MulIdle
    /\ call = "" /\ res = <<>>
    /\ \E i, j \in 1..MaxRunInput, w \in {0, 1} :
        /\ i < j
        /\ arg = [xa |-> RunElement(i), xb |-> RunElement(j),
                  sa |-> RunSerial(i), sb |-> RunSerial(j), with_hibit |-> w]
    /\ acc = ZERO /\ acc_val = BNZero /\ ops = 0
    /\ shared = <<>> /\ threads = <<>>

\* both runs are over: what each executed and what each gave
RunsDone(name, a, b) ==
    /\ pc = "runs_input"
    /\ call' = name
    /\ res' = [a |-> a, b |-> b]
    /\ pc' = "runs_done"
    /\ UNCHANGED <<codec_vars, scalar_vars, mul_vars, arg, acc, acc_val, ops, shared, threads>>

RunIsr ==
    RunsDone("gf_isr",
             [steps |-> gf_isr_steps(arg.xa), out |-> <<>>],
             [steps |-> gf_isr_steps(arg.xb), out |-> <<>>])

RunEq ==
    \E y \in {ZERO, arg.xa} :
        RunsDone("gf_eq",
                 [steps |-> gf_eq_steps(arg.xa, y), out |-> gf_eq(arg.xa, y)],
                 [steps |-> gf_eq_steps(arg.xb, y), out |-> gf_eq(arg.xb, y)])

RunHibit ==
    RunsDone("gf_hibit",
             [steps |-> gf_hibit_steps(arg.xa), out |-> gf_hibit(arg.xa)],
             [steps |-> gf_hibit_steps(arg.xb), out |-> gf_hibit(arg.xb)])

RunLobit ==
    RunsDone("gf_lobit",
             [steps |-> gf_lobit_steps(arg.xa), out |-> gf_lobit(arg.xa)],
             [steps |-> gf_lobit_steps(arg.xb), out |-> gf_lobit(arg.xb)])

RunStrongReduce ==
    RunsDone("gf_strong_reduce",
             [steps |-> gf_strong_reduce_steps(arg.xa), out |-> gf_strong_reduce(arg.xa)],
             [steps |-> gf_strong_reduce_steps(arg.xb), out |-> gf_strong_reduce(arg.xb)])

\* gf_serialize asserts that the high bit is clear when with_hibit is 0:
\* its callers pass it such elements
RunSerialize ==
    /\ \/ arg.with_hibit # 0
       \/ gf_hibit(arg.xa) = MASK_FALSE /\ gf_hibit(arg.xb) = MASK_FALSE
    /\ RunsDone("gf_serialize",
                [steps |-> gf_serialize_steps(arg.xa, arg.with_hibit),
                 out |-> gf_serialize(arg.xa, arg.with_hibit)],
                [steps |-> gf_serialize_steps(arg.xb, arg.with_hibit),
                 out |-> gf_serialize(arg.xb, arg.with_hibit)])

RunDeserialize ==
    \E hi_nmask \in {0, 128} :
        RunsDone("gf_deserialize",
                 [steps |-> gf_deserialize_steps(arg.sa, arg.with_hibit, hi_nmask),
                  out |-> gf_deserialize(arg.sa, arg.with_hibit, hi_nmask)],
                 [steps |-> gf_deserialize_steps(arg.sb, arg.with_hibit, hi_nmask),
                  out |-> gf_deserialize(arg.sb, arg.with_hibit, hi_nmask)])

NextRuns ==
    \/ RunIsr
    \/ RunEq
    \/ RunHibit
    \/ RunLobit
    \/ RunStrongReduce
    \/ RunSerialize
    \/ RunDeserialize

SpecRuns == InitRuns /\ [][NextRuns]_vars

MaxOps == 4
MaxOperand == 4

\* the residue modulo p an element represents
Residue(a) == ModP(gf_value(a))

\* 2^52: the limbs of the elements the operations take are below it
LIMB_BOUND == BNPow2(LIMB_PLACE_VALUE + 1)

InitField ==
    /\ pc = "field_run"
    /\ CodecIdle /\ ScalarIdle /\ MulIdle
    /\ call = "" /\ arg = <<>> /\ res = <<>>
    /\ \E k \in 1..MaxOperand : acc = RunElement(k)
    /\ acc_val = Residue(acc)
    /\ ops = 0
    /\ shared = <<>> /\ threads = <<>>

FieldStep(name, a, v) ==
    /\ pc = "field_run"
    /\ ops < MaxOps
    /\ call' = name
    /\ acc' = a
    /\ acc_val' = v
    /\ ops' = ops + 1
    /\ UNCHANGED <<pc, codec_vars, scalar_vars, mul_vars, arg, res, shared, threads>>

\* gf_add(&acc, &acc, &b)
FieldAdd ==
    \E k \in 1..MaxOperand :
        FieldStep("gf_add", gf_add(acc, RunElement(k)),
                  ModP(BNAdd(acc_val, Residue(RunElement(k)))))

\* gf_sub(&acc, &acc, &b)
FieldSub ==
    \E k \in 1..MaxOperand :
        FieldStep("gf_sub", gf_sub(acc, RunElement(k)),
                  ModP(BNSub(BNAdd(acc_val, P25519), Residue(RunElement(k)))))

\* gf_sub(&acc, &b, &acc)
FieldSubFrom ==
    \E k \in 1..MaxOperand :
        FieldStep("gf_sub from", gf_sub(RunElement(k), acc),
                  ModP(BNSub(BNAdd(Residue(RunElement(k)), P25519), acc_val)))

FieldWeakReduce == FieldStep("gf_weak_reduce", gf_weak_reduce(acc), acc_val)

FieldStrongReduce == FieldStep("gf_strong_reduce", gf_strong_reduce(acc), acc_val)

NextField ==
    \/ FieldAdd
    \/ FieldSub
    \/ FieldSubFrom
    \/ FieldWeakReduce
    \/ FieldStrongReduce

SpecField == InitField /\ [][NextField]_vars

\* C13: from elements with all five limbs below 2^52, after any sequence
\* of gf_add, gf_sub, gf_weak_reduce and gf_strong_reduce every limb of
\* the result is below 2^52 again and the result represents, modulo p, the
\* sum or difference it should.
C13_LimbsBounded ==
    pc = "field_run" =>
        /\ \A i \in 1..RISTRETTO255_FIELD_LIMBS : BNLess(acc[i], LIMB_BOUND)
        /\ Residue(acc) = acc_val

C13_Witness ==
    /\ pc = "field_run" /\ ops = MaxOps /\ call = "gf_sub from"
    /\ \E i \in 1..RISTRETTO255_FIELD_LIMBS : ~BNLess(acc[i], BNPow2(LIMB_PLACE_VALUE))
    /\ Residue(acc) = acc_val /\ acc_val # BNZero

(***************************************************************************)
(* gf_add, gf_sub and gf_isr on objects in memory: a memory is a sequence  *)
(* of field elements, a call names its output and its inputs by index, and *)
(* each statement reads the memory as the statements before left it.       *)
(***************************************************************************)
\* for (i = 0; i < 5; i++) out->limb[i] = a->limb[i] + b->limb[i]
RECURSIVE gf_add_RAW_at(_, _, _, _, _)
gf_add_RAW_at(m, out, a, b, i) ==
    IF i > RISTRETTO255_FIELD_LIMBS THEN m
    ELSE Let([m1 \in {[m EXCEPT ![out][i] = WAdd(m[a][i], m[b][i])]} |->
             gf_add_RAW_at(m1, out, a, b, i + 1)])

RECURSIVE gf_sub_RAW_at(_, _, _, _, _)
gf_sub_RAW_at(m, out, a, b, i) ==
    IF i > RISTRETTO255_FIELD_LIMBS THEN m
    ELSE Let([m1 \in {[m EXCEPT ![out][i] = WSub(m[a][i], m[b][i])]} |->
             gf_sub_RAW_at(m1, out, a, b, i + 1)])

\* gf_bias and gf_weak_reduce work on the one object they are given
gf_bias_at(m, a, amt) == [m EXCEPT ![a] = gf_bias(m[a], amt)]
gf_weak_reduce_at(m, a) == [m EXCEPT ![a] = gf_weak_reduce(m[a])]

\* gf_add that copies a to the output, then adds b to it
gf_add_at_copy_first(m, d, a, b) ==
    Let([m1 \in {[m EXCEPT ![d] = m[a]]} |->
    Let([m2 \in {gf_add_RAW_at(m1, d, d, b, 1)} |-> gf_weak_reduce_at(m2, d)])])

gf_add_at(m, d, a, b) ==
    Let([m1 \in {gf_add_RAW_at(m, d, a, b, 1)} |-> gf_weak_reduce_at(m1, d)])

gf_sub_at(m, d, a, b) ==
    Let([m1 \in {gf_sub_RAW_at(m, d, a, b, 1)} |->
    Let([m2 \in {gf_bias_at(m1, d, 2)} |-> gf_weak_reduce_at(m2, d)])])

\* a statement of the chain of gf_isr over the frame <<L0, L1, L2, L3>> \o m:
\* its operand x is the object x of the memory
IsrOperand(r, x) == IF r = RX THEN L3 + x ELSE r
IsrStmtAt(st, x) ==
    <<st[1], st[2], IsrOperand(st[3], x),
      IF st[1] = "mul" THEN IsrOperand(st[4], x) ELSE st[4]>>

\* statements lo..hi of the chain, in order
RECURSIVE gf_isr_chain_at(_, _, _, _)
gf_isr_chain_at(frame, lo, hi, x) ==
    IF lo > hi THEN frame
    ELSE IF lo = hi THEN gf_isr_stmt(frame, IsrStmtAt(ISR_CHAIN[lo], x))
    ELSE Let([f1 \in {gf_isr_chain_at(frame, lo, (lo + hi) \div 2, x)} |->
             gf_isr_chain_at(f1, ((lo + hi) \div 2) + 1, hi, x)])

\* gf_isr(a, x) on the memory: <<memory, succ>>
gf_isr_at(m, a, x) ==
    Let([r \in {gf_isr_chain_at(<<ZERO, ZERO, ZERO, ZERO>> \o m, 1, Len(ISR_CHAIN), x)} |->
    Let([l2 \in {gf_sqr(r[L0])} |->
    Let([l3 \in {gf_mul(l2, r[L3 + x])} |->
    Let([l1 \in {gf_add(l3, ONE)} |->
    Let([one \in {gf_eq(l3, ONE)} |->
    Let([succ \in {BNOr(one, gf_eq(l1, ZERO))} |->
    Let([qr \in {BNOr(one, gf_eq(l3, SQRT_MINUS_ONE))} |->
    Let([sel \in {constant_time_select(SQRT_MINUS_ONE, ONE, qr)} |->
        <<[m EXCEPT ![a] = gf_mul(sel, r[L0])], succ>>])])])])])])])])

MaxObject == 3
MaxMemory == 2

\* memories of MaxObject elements
Memory(k) == [o \in 1..MaxObject |-> RunElement(((k + 2 * o) % 6) + 1)]

\* the memory with one more object, for an output that is no input
Distinct(m) == Append(m, SQRT_MINUS_ONE)

InitAlias ==
    /\ pc = "alias_input"
    /\ CodecIdle /\ ScalarIdle /\ MulIdle
    /\ call = "" /\ res = <<>>
    /\ \E k \in 1..MaxMemory : arg = [mem |-> Memory(k)]
    /\ acc = ZERO /\ acc_val = BNZero /\ ops = 0
    /\ shared = <<>> /\ threads = <<>>

\* the call is over: the memory it left and what it returned, and the same
\* for the call with an output that is no input
AliasDone(c, r, s) ==
    /\ pc = "alias_input"
    /\ call' = c
    /\ res' = [mem |-> r[1], ret |-> r[2], distinct |-> s[1][Len(s[1])], distinct_ret |-> s[2]]
    /\ pc' = "alias_done"
    /\ UNCHANGED <<codec_vars, scalar_vars, mul_vars, arg, acc, acc_val, ops, shared, threads>>

\* gf_add(&m[d], &m[a], &m[b])
AliasAdd ==
    \E d, a, b \in 1..MaxObject :
        AliasDone([fn |-> "gf_add", d |-> d, a |-> a, b |-> b],
                  <<gf_add_at(arg.mem, d, a, b), MASK_TRUE>>,
                  <<gf_add_at(Distinct(arg.mem), MaxObject + 1, a, b), MASK_TRUE>>)

\* gf_sub(&m[d], &m[a], &m[b])
AliasSub ==
    \E d, a, b \in 1..MaxObject :
        AliasDone([fn |-> "gf_sub", d |-> d, a |-> a, b |-> b],
                  <<gf_sub_at(arg.mem, d, a, b), MASK_TRUE>>,
                  <<gf_sub_at(Distinct(arg.mem), MaxObject + 1, a, b), MASK_TRUE>>)

\* gf_isr(&m[d], &m[a])
AliasIsr ==
    \E d, a \in 1..MaxObject :
        AliasDone([fn |-> "gf_isr", d |-> d, a |-> a, b |-> a],
                  gf_isr_at(arg.mem, d, a),
                  gf_isr_at(Distinct(arg.mem), MaxObject + 1, a))

NextAlias ==
    \/ AliasAdd
    \/ AliasSub
    \/ AliasIsr

SpecAlias == InitAlias /\ [][NextAlias]_vars

\* C14: gf_add(d, a, b), gf_sub(d, a, b) and gf_isr(a, x) write the same
\* value to their output and return the same when the output is the same
\* object as one or both inputs as when it is another object; the other
\* objects are left as they were.
C14_AliasedOutput ==
    pc = "alias_done" =>
        /\ res.mem[call.d] = res.distinct
        /\ res.ret = res.distinct_ret
        /\ \A o \in 1..MaxObject : o # call.d => res.mem[o] = arg.mem[o]

C14_Witness ==
    /\ pc = "alias_done" /\ call.fn = "gf_isr" /\ call.d = call.a
    /\ res.ret = MASK_TRUE /\ res.mem[call.d] = res.distinct
    /\ res.mem[call.d] # arg.mem[call.d]

(***************************************************************************)
(* Two threads, each in one call of a field operation.  They share the     *)
(* globals MODULUS and SQRT_MINUS_ONE and the inputs x, y and serial, and  *)
(* thread t has the outputs out[t], ser[t] and ret[t] and its locals.  A   *)
(* step is one statement (or one pass of a limb loop) of the call:         *)
(* <<shared, thread>> after it.                                            *)
(***************************************************************************)
FieldCalls ==
    <<"gf_add", "gf_sub", "gf_bias", "gf_weak_reduce", "gf_strong_reduce", "gf_isr",
      "gf_eq", "gf_hibit", "gf_lobit", "gf_serialize", "gf_deserialize">>

\* the number of steps of a call
CallSteps(c) ==
    CASE c = "gf_add" -> RISTRETTO255_FIELD_LIMBS + 1
      [] c = "gf_sub" -> RISTRETTO255_FIELD_LIMBS + 2
      [] c \in {"gf_bias", "gf_weak_reduce"} -> 1
      [] c \in {"gf_isr", "gf_deserialize"} -> 2
      [] OTHER -> 3

\* gf_add(&out[t], &x, &y)
gf_add_thread(sh, th, t) ==
    IF th.at < RISTRETTO255_FIELD_LIMBS
    THEN <<[sh EXCEPT !.out[t][th.at + 1] = WAdd(sh.x[th.at + 1], sh.y[th.at + 1])], th>>
    ELSE <<[sh EXCEPT !.out[t] = gf_weak_reduce(@)], th>>

\* gf_sub(&out[t], &x, &y)
gf_sub_thread(sh, th, t) ==
    IF th.at < RISTRETTO255_FIELD_LIMBS
    THEN <<[sh EXCEPT !.out[t][th.at + 1] = WSub(sh.x[th.at + 1], sh.y[th.at + 1])], th>>
    ELSE IF th.at = RISTRETTO255_FIELD_LIMBS
    THEN <<[sh EXCEPT !.out[t] = gf_bias(@, 2)], th>>
    ELSE <<[sh EXCEPT !.out[t] = gf_weak_reduce(@)], th>>

\* gf_bias(&out[t], 2) and gf_weak_reduce(&out[t])
gf_bias_thread(sh, th, t) == <<[sh EXCEPT !.out[t] = gf_bias(@, 2)], th>>
gf_weak_reduce_thread(sh, th, t) == <<[sh EXCEPT !.out[t] = gf_weak_reduce(@)], th>>

\* gf_strong_reduce(&out[t]): the weak reduction, then its two loops
gf_strong_reduce_thread(sh, th, t) ==
    IF th.at = 0 THEN <<[sh EXCEPT !.out[t] = gf_weak_reduce(@)], th>>
    ELSE IF th.at = 1
    THEN Let([r \in {gf_strong_reduce_sub(sh.out[t], 1, <<>>)} |->
             <<[sh EXCEPT !.out[t] = r[1]], [th EXCEPT !.aux = W64(r[2])]>>])
    ELSE <<[sh EXCEPT !.out[t] = gf_strong_reduce_add(@, 1, <<>>, th.aux)[1]], th>>

\* gf_isr(&out[t], &x): up to the write of the output, then the return
gf_isr_thread(sh, th, t) ==
    IF th.at = 0
    THEN Let([r \in {gf_isr(sh.x)} |->
             <<[sh EXCEPT !.out[t] = r[1]], [th EXCEPT !.aux = r[2]]>>])
    ELSE <<[sh EXCEPT !.ret[t] = th.aux], th>>

\* gf_eq(&x, &y), with the local c
gf_eq_thread(sh, th, t) ==
    IF th.at = 0 THEN <<sh, [th EXCEPT !.loc = gf_sub(sh.x, sh.y)]>>
    ELSE IF th.at = 1 THEN <<sh, [th EXCEPT !.loc = gf_strong_reduce(@)]>>
    ELSE <<[sh EXCEPT !.ret[t] = word_is_zero(gf_or_limbs(th.loc, 1, <<>>))], th>>

\* gf_hibit that doubles and reduces x where it is
gf_hibit_thread_in_place(sh, th, t) ==
    IF th.at = 0 THEN <<[sh EXCEPT !.x = gf_add(sh.x, sh.x)], th>>
    ELSE IF th.at = 1 THEN <<[sh EXCEPT !.x = gf_strong_reduce(@)], th>>
    ELSE <<[sh EXCEPT !.ret[t] = MaskOfBit(sh.x[1])], th>>

\* gf_hibit(&x), with the local y
gf_hibit_thread(sh, th, t) ==
    IF th.at = 0 THEN <<sh, [th EXCEPT !.loc = gf_add(sh.x, sh.x)]>>
    ELSE IF th.at = 1 THEN <<sh, [th EXCEPT !.loc = gf_strong_reduce(@)]>>
    ELSE <<[sh EXCEPT !.ret[t] = MaskOfBit(th.loc[1])], th>>

\* gf_lobit(&x), with the local y
gf_lobit_thread(sh, th, t) ==
    IF th.at = 0 THEN <<sh, [th EXCEPT !.loc = gf_copy(sh.x)]>>
    ELSE IF th.at = 1 THEN <<sh, [th EXCEPT !.loc = gf_strong_reduce(@)]>>
    ELSE <<[sh EXCEPT !.ret[t] = MaskOfBit(th.loc[1])], th>>

\* gf_serialize(ser[t], &x, 1), with the local red
gf_serialize_thread(sh, th, t) ==
    IF th.at = 0 THEN <<sh, [th EXCEPT !.loc = gf_copy(sh.x)]>>
    ELSE IF th.at = 1 THEN <<sh, [th EXCEPT !.loc = gf_strong_reduce(@)]>>
    ELSE <<[sh EXCEPT !.ser[t] =
                Iterate(gf_serialize_step,
                        [red |-> th.loc, j |-> 0, serial |-> <<>>, fill |-> <<>>,
                         buffer |-> <<>>, steps |-> <<>>],
                        SER_BYTES).serial], th>>

\* gf_deserialize(&out[t], serial, 1, 0): the limb loop, then the return
gf_deserialize_thread(sh, th, t) ==
    IF th.at = 0
    THEN Let([st \in {gf_deserialize_loop(sh.serial, 0)} |->
             <<[sh EXCEPT !.out[t] = st.x],
               [th EXCEPT !.aux = BNAnd(word_is_zero(st.buffer),
                                        MaskNot(word_is_zero(st.scarry)))]>>])
    ELSE <<[sh EXCEPT !.ret[t] = th.aux], th>>

\* the next step of thread t, and its position moved on
CallStep(sh, th, t) ==
    Let([r \in {CASE th.call = "gf_add" -> gf_add_thread(sh, th, t)
                  [] th.call = "gf_sub" -> gf_sub_thread(sh, th, t)
                  [] th.call = "gf_bias" -> gf_bias_thread(sh, th, t)
                  [] th.call = "gf_weak_reduce" -> gf_weak_reduce_thread(sh, th, t)
                  [] th.call = "gf_strong_reduce" -> gf_strong_reduce_thread(sh, th, t)
                  [] th.call = "gf_isr" -> gf_isr_thread(sh, th, t)
                  [] th.call = "gf_eq" -> gf_eq_thread(sh, th, t)
                  [] th.call = "gf_hibit" -> gf_hibit_thread(sh, th, t)
                  [] th.call = "gf_lobit" -> gf_lobit_thread(sh, th, t)
                  [] th.call = "gf_serialize" -> gf_serialize_thread(sh, th, t)
                  [] OTHER -> gf_deserialize_thread(sh, th, t)} |->
        <<r[1], [r[2] EXCEPT !.at = @ + 1]>>])

\* the call of thread t run to its end with no other thread
RECURSIVE CallAlone(_, _, _)
CallAlone(sh, th, t) ==
    IF th.at >= CallSteps(th.call) THEN sh
    ELSE Let([r \in {CallStep(sh, th, t)} |-> CallAlone(r[1], r[2], t)])

MaxCallGap == 1
MaxSharedInput == 2

Thread(c) == [call |-> c, at |-> 0, loc |-> ZERO, aux |-> <<>>]

InitThreads ==
    /\ pc = "threads"
    /\ CodecIdle /\ ScalarIdle /\ MulIdle
    /\ call = "" /\ res = <<>>
    /\ acc = ZERO /\ acc_val = BNZero /\ ops = 0
    /\ \E k \in 1..MaxSharedInput :
        shared = [MODULUS |-> MODULUS, SQRT_MINUS_ONE |-> SQRT_MINUS_ONE,
                  x |-> RunElement(k + 2), y |-> RunElement(k + 3), serial |-> RunSerial(k + 1),
                  out |-> <<RunElement(k + 2), RunElement(k + 2)>>,
                  ser |-> <<ZeroSerial, ZeroSerial>>,
                  ret |-> <<MASK_FALSE, MASK_FALSE>>]
    /\ \E c \in 1..Len(FieldCalls), g \in 0..MaxCallGap :
        threads = <<Thread(FieldCalls[c]),
                    Thread(FieldCalls[((c + g - 1) % Len(FieldCalls)) + 1])>>
    /\ arg = [shared |-> shared, threads |-> threads]

\* thread t executes its next step
ThreadStep ==
    /\ pc = "threads"
    /\ \E t \in 1..2 :
        /\ threads[t].at < CallSteps(threads[t].call)
        /\ \E r \in {CallStep(shared, threads[t], t)} :
            /\ shared' = r[1]
            /\ threads' = [threads EXCEPT ![t] = r[2]]
    /\ UNCHANGED <<pc, codec_vars, scalar_vars, mul_vars, call, arg, res, acc, acc_val, ops>>

NextThreads == ThreadStep

SpecThreads == InitThreads /\ [][NextThreads]_vars

ThreadsDone == \A t \in 1..2 : threads[t].at = CallSteps(threads[t].call)

\* C15: no field operation writes to MODULUS, to SQRT_MINUS_ONE or to an
\* input it takes as const, and any interleaving of two calls with
\* different output objects leaves the outputs that the two calls give one
\* after the other.
C15_Interleaving ==
    pc = "threads" =>
        /\ shared.MODULUS = MODULUS /\ shared.SQRT_MINUS_ONE = SQRT_MINUS_ONE
        /\ shared.x = arg.shared.x /\ shared.y = arg.shared.y
        /\ shared.serial = arg.shared.serial
        /\ ThreadsDone =>
            shared = CallAlone(CallAlone(arg.shared, arg.threads[1], 1), arg.threads[2], 2)

C15_Witness ==
    /\ pc = "threads" /\ ThreadsDone
    /\ threads[1].call = "gf_strong_reduce" /\ threads[2].call = "gf_isr"
    /\ shared.out[1] # arg.shared.out[1] /\ shared.out[2] # arg.shared.out[2]
    /\ shared.ret[2] = MASK_TRUE

(***************************************************************************)
(* The header is generated from point.tmpl.h: a constant of the header is  *)
(* the value of its template expression under the parameters of the curve. *)
(***************************************************************************)
INVERT_ELLIGATOR_WHICH_BITS == 5
REMOVED_COFACTOR == 8
GF_BITS == 255

\* the least k with 2^k >= n
RECURSIVE ceil_log2_from(_, _)
ceil_log2_from(n, k) == IF 2 ^ k >= n THEN k ELSE ceil_log2_from(n, k + 1)
ceil_log2(n) == ceil_log2_from(n, 0)

\* the expression with gf_bits % 8 in place of (gf_bits - 2) % 8
which_bits_whole_bits(cofactor, elligator_onto, gf_bits) ==
    ceil_log2(cofactor) + 7 + elligator_onto - (gf_bits % 8)

\* $(ceil_log2(cofactor) + 7 + elligator_onto - ((gf_bits-2) % 8))
which_bits(cofactor, elligator_onto, gf_bits) ==
    ceil_log2(cofactor) + 7 + elligator_onto - ((gf_bits - 2) % 8)

MaxBitsSpread == 15

InitTemplate ==
    /\ pc = "template"
    /\ CodecIdle /\ ScalarIdle /\ MulIdle
    /\ call = "" /\ res = <<>>
    /\ \E b \in (GF_BITS - MaxBitsSpread)..(GF_BITS + MaxBitsSpread),
          c \in {REMOVED_COFACTOR \div 2, REMOVED_COFACTOR}, o \in {0, 1} :
        arg = [gf_bits |-> b, cofactor |-> c, elligator_onto |-> o]
    /\ acc = ZERO /\ acc_val = BNZero /\ ops = 0
    /\ shared = <<>> /\ threads = <<>>

\* the template is expanded
Generate ==
    /\ pc = "template"
    /\ call' = "INVERT_ELLIGATOR_WHICH_BITS"
    /\ res' = [which_bits |-> which_bits(arg.cofactor, arg.elligator_onto, arg.gf_bits)]
    /\ pc' = "generated"
    /\ UNCHANGED <<codec_vars, scalar_vars, mul_vars, arg, acc, acc_val, ops, shared, threads>>

NextTemplate == Generate

SpecTemplate == InitTemplate /\ [][NextTemplate]_vars

Curve25519Case == arg.gf_bits = GF_BITS /\ arg.cofactor = REMOVED_COFACTOR

\* C16, as stated: INVERT_ELLIGATOR_WHICH_BITS is 5 and is the
\* value of ceil(log2 8) + 7 + 1 - (255 mod 8).
C16_AsStated ==
    pc = "generated" /\ Curve25519Case =>
        /\ INVERT_ELLIGATOR_WHICH_BITS = 5
        /\ INVERT_ELLIGATOR_WHICH_BITS
            = ceil_log2(arg.cofactor) + 7 + 1 - (arg.gf_bits % 8)

\* C16: INVERT_ELLIGATOR_WHICH_BITS is 5, and it is the value of the
\* expression of the template, ceil_log2(cofactor) + 7 + elligator_onto -
\* ((gf_bits - 2) mod 8), for cofactor 8 and gf_bits 255 exactly when
\* elligator_onto is 0.
C16_TemplateValue ==
    pc = "generated" /\ Curve25519Case =>
        /\ INVERT_ELLIGATOR_WHICH_BITS = 5
        /\ res.which_bits = INVERT_ELLIGATOR_WHICH_BITS <=> arg.elligator_onto = 0

C16_Witness ==
    /\ pc = "generated" /\ Curve25519Case /\ arg.elligator_onto = 0
    /\ res.which_bits = INVERT_ELLIGATOR_WHICH_BITS

(***************************************************************************)
(* gf_isr on the small elements, on their negatives and on other limbs of  *)
(* the same residues, with the residues that are squares told apart by     *)
(* Euler's criterion.                                                      *)
(***************************************************************************)
MaxIsrInput == 17

\* one bit of a square-and-multiply x^e mod p, from the top bit of e down
PowModPStep(st) ==
    Let([s \in {ModP(BNSqr(st.r))} |->
        [st EXCEPT !.r = IF BNBit(st.e, st.i) = 1 THEN ModP(BNMul(s, st.x)) ELSE s,
                   !.i = st.i - 1]])

\* x^((p - 1) / 2) = 1 mod p: x is a square that is not 0
IsSquare(x) ==
    Iterate(PowModPStep,
            [x |-> x, e |-> BNShr(BNSub(P25519, <<1>>), 1), i |-> GF_BITS - 2, r |-> <<1>>],
            GF_BITS - 1).r = <<1>>

\* k, p - k, and k with p added limb by limb; and 0, p and 2p for 0
IsrInputs ==
    UNION {{gf_limbs(BN(k)),
            gf_limbs(BNSub(P25519, BN(k))),
            gf_add_RAW(gf_limbs(BN(k)), MODULUS)} : k \in 1..MaxIsrInput}
    \cup {ZERO, MODULUS, gf_add_RAW(MODULUS, MODULUS)}

InitIsr ==
    /\ pc = "isr_input"
    /\ CodecIdle /\ ScalarIdle /\ MulIdle
    /\ call = "" /\ res = <<>>
    /\ \E x \in IsrInputs : arg = [x |-> x, square |-> IsSquare(Residue(x))]
    /\ acc = ZERO /\ acc_val = BNZero /\ ops = 0
    /\ shared = <<>> /\ threads = <<>>

\* ok = gf_isr(&a, &x)
Isr ==
    /\ pc = "isr_input"
    /\ call' = "gf_isr"
    /\ \E r \in {gf_isr(arg.x)} : res' = [a |-> r[1], ok |-> r[2]]
    /\ pc' = "isr_done"
    /\ UNCHANGED <<codec_vars, scalar_vars, mul_vars, arg, acc, acc_val, ops, shared, threads>>

\* lines 64 to 85 of gf_isr: the chain, L0 at its end, and the products
\* and squarings it made
IsrChain ==
    /\ pc = "isr_input"
    /\ call' = "gf_isr chain"
    /\ \E r \in {gf_isr_chain(<<ZERO, ZERO, ZERO, ZERO, arg.x>>, 1, Len(ISR_CHAIN))} :
        \E n \in {gf_isr_chain_ops([mul |-> 0, sqr |-> 0], 1, Len(ISR_CHAIN))} :
            res' = [l0 |-> r[L0], mul |-> n.mul, sqr |-> n.sqr]
    /\ pc' = "isr_chain_done"
    /\ UNCHANGED <<codec_vars, scalar_vars, mul_vars, arg, acc, acc_val, ops, shared, threads>>

NextIsr ==
    \/ Isr
    \/ IsrChain

SpecIsr == InitIsr /\ [][NextIsr]_vars

\* a^2 x mod p
IsrCheck == ModP(BNMul(ModP(BNSqr(Residue(res.a))), Residue(arg.x)))

\* C17: for x not 0 mod p, gf_isr leaves a with a^2 x equal to 1 or to
\* SQRT_MINUS_ONE, and returns the all-ones mask exactly when a^2 x = 1,
\* which is exactly when x is a square; it returns zero otherwise.
C17_IsrNonZero ==
    pc = "isr_done" /\ Residue(arg.x) # BNZero =>
        /\ IsrCheck \in {<<1>>, Residue(SQRT_MINUS_ONE)}
        /\ res.ok \in {MASK_TRUE, MASK_FALSE}
        /\ res.ok = MASK_TRUE <=> IsrCheck = <<1>>
        /\ res.ok = MASK_TRUE <=> arg.square

C17_Witness ==
    /\ pc = "isr_done" /\ Residue(arg.x) # BNZero /\ ~arg.square
    /\ arg.x # gf_limbs(Residue(arg.x))
    /\ IsrCheck = Residue(SQRT_MINUS_ONE) /\ res.ok = MASK_FALSE

\* C18, as stated: for x congruent to 0 mod p, in any limbs,
\* gf_isr writes a = 0 and returns the all-ones mask.
C18_IsrZero ==
    pc = "isr_done" /\ Residue(arg.x) = BNZero =>
        Residue(res.a) = BNZero /\ res.ok = MASK_TRUE

(***************************************************************************)
(* gf_strong_reduce on limbs of any 64-bit value.                          *)
(***************************************************************************)
MaxLimbCase == 4

\* a limb: 0, the low limb of p, 2^51 - 1, 2^64 - 1, and others past 2^51
LimbCase(k) ==
    CASE k = 1 -> <<>>
      [] k = 2 -> MODULUS[1]
      [] k = 3 -> LIMB_MASK
      [] k = 4 -> MASK_TRUE
      [] OTHER -> BNAdd(BNPow2(LIMB_PLACE_VALUE), BN(k))

InitReduce ==
    /\ pc = "reduce_input"
    /\ CodecIdle /\ ScalarIdle /\ MulIdle
    /\ call = "" /\ res = <<>>
    /\ \E f \in [1..RISTRETTO255_FIELD_LIMBS -> 1..MaxLimbCase] :
        arg = [a |-> [i \in 1..RISTRETTO255_FIELD_LIMBS |-> LimbCase(f[i])]]
    /\ acc = ZERO /\ acc_val = BNZero /\ ops = 0
    /\ shared = <<>> /\ threads = <<>>

\* gf_strong_reduce(&a)
StrongReduce ==
    /\ pc = "reduce_input"
    /\ call' = "gf_strong_reduce"
    /\ \E r \in {gf_strong_reduce_run(arg.a)} :
        res' = [a |-> r.a, assert1 |-> r.assert1, assert2 |-> r.assert2,
                scarry |-> r.scarry, scarry_0 |-> r.scarry_0, carry |-> r.carry]
    /\ pc' = "reduced"
    /\ UNCHANGED <<codec_vars, scalar_vars, mul_vars, arg, acc, acc_val, ops, shared, threads>>

\* gf_strong_reduce(&a) once more
StrongReduceAgain ==
    /\ pc = "reduced"
    /\ call' = "gf_strong_reduce again"
    /\ \E r \in {gf_strong_reduce_run(res.a)} :
        res' = [a |-> r.a, assert1 |-> r.assert1, assert2 |-> r.assert2,
                scarry |-> r.scarry, scarry_0 |-> r.scarry_0, carry |-> r.carry,
                once |-> res.a]
    /\ pc' = "reduced_again"
    /\ UNCHANGED <<codec_vars, scalar_vars, mul_vars, arg, acc, acc_val, ops, shared, threads>>

\* gf_weak_reduce(&a)
WeakReduce ==
    /\ pc = "reduce_input"
    /\ call' = "gf_weak_reduce"
    /\ res' = [a |-> gf_weak_reduce(arg.a)]
    /\ pc' = "weak_reduced"
    /\ UNCHANGED <<codec_vars, scalar_vars, mul_vars, arg, acc, acc_val, ops, shared, threads>>

NextReduce ==
    \/ StrongReduce
    \/ StrongReduceAgain
    \/ WeakReduce

SpecReduce == InitReduce /\ [][NextReduce]_vars

\* C19: for limbs of any 64-bit values gf_strong_reduce leaves the
\* canonical representative: every limb below 2^51, the value below p and
\* congruent modulo p to the value of the input; and a second
\* gf_strong_reduce changes nothing.
C19_Canonical ==
    /\ pc \in {"reduced", "reduced_again"} =>
        /\ \A i \in 1..RISTRETTO255_FIELD_LIMBS : BNLess(res.a[i], BNPow2(LIMB_PLACE_VALUE))
        /\ BNLess(gf_value(res.a), P25519)
        /\ gf_value(res.a) = Residue(arg.a)
        /\ res.assert1 /\ res.assert2
    /\ pc = "reduced_again" => res.a = res.once

C19_Witness ==
    /\ pc = "reduced_again"
    /\ \A i \in 1..RISTRETTO255_FIELD_LIMBS : arg.a[i] = MASK_TRUE
    /\ res.a = res.once /\ res.a # arg.a
    /\ BNLess(gf_value(res.a), P25519)

(***************************************************************************)
(* gf_deserialize on the serials of the numbers around 0, (p - 1) / 2, p   *)
(* and 2^255, with bit 255 clear and set.                                  *)
(***************************************************************************)
MaxDeserOffset == 2

\* (p - 1) / 2
HALF_P == BNShr(P25519, 1)

DeserValues ==
    UNION {{BN(d), BNSub(HALF_P, BN(d)), BNAdd(HALF_P, BN(d + 1)),
            BNSub(P25519, BN(d + 1)), BNAdd(P25519, BN(d))} : d \in 0..MaxDeserOffset}

DeserInputs ==
    {BNBytes(v, SER_BYTES) : v \in DeserValues}
    \cup {WithTopBit(BNBytes(v, SER_BYTES)) : v \in DeserValues}

\* hi_nmask: nothing, the top bit, the top two bits
HiNmasks == {0, 128, 192}

InitDeser ==
    /\ pc = "deser_input"
    /\ CodecIdle /\ ScalarIdle /\ MulIdle
    /\ call = "" /\ res = <<>>
    /\ \E s \in DeserInputs : arg = [serial |-> s]
    /\ acc = ZERO /\ acc_val = BNZero /\ ops = 0
    /\ shared = <<>> /\ threads = <<>>

\* ok = gf_deserialize(&x, serial, with_hibit, hi_nmask)
Deserialize ==
    /\ pc = "deser_input"
    /\ call' = "gf_deserialize"
    /\ \E with_hibit \in {0, 1}, hi_nmask \in HiNmasks :
        \E r \in {gf_deserialize(arg.serial, with_hibit, hi_nmask)} :
            res' = [x |-> r[1], ok |-> r[2], with_hibit |-> with_hibit, hi_nmask |-> hi_nmask,
                    serial |-> gf_deserialize_loop(arg.serial, hi_nmask).serial]
    /\ pc' = "deserialized"
    /\ UNCHANGED <<codec_vars, scalar_vars, mul_vars, arg, acc, acc_val, ops, shared, threads>>

\* the bits of byte b that hi_nmask does not select
Unmasked(b, hi_nmask) == BNInt(BNAnd(BN(b), BN(255 - hi_nmask)))

\* ok = gf_deserialize(&y, other, with_hibit, hi_nmask) with the same
\* arguments, for bytes that differ from serial in bits hi_nmask selects
DeserializeOther ==
    /\ pc = "deserialized"
    /\ call' = "gf_deserialize other"
    /\ \E b \in Bytes :
        /\ b # arg.serial[SER_BYTES]
        /\ Unmasked(b, res.hi_nmask) = Unmasked(arg.serial[SER_BYTES], res.hi_nmask)
        /\ \E other \in {[arg.serial EXCEPT ![SER_BYTES] = b]} :
            \E r \in {gf_deserialize(other, res.with_hibit, res.hi_nmask)} :
                res' = [one |-> res, other |-> other, x |-> r[1], ok |-> r[2],
                        serial |-> gf_deserialize_loop(other, res.hi_nmask).serial]
    /\ pc' = "deserialized_other"
    /\ UNCHANGED <<codec_vars, scalar_vars, mul_vars, arg, acc, acc_val, ops, shared, threads>>

NextDeser ==
    \/ Deserialize
    \/ DeserializeOther

SpecDeser == InitDeser /\ [][NextDeser]_vars

\* the little-endian value of the serial with the bits of its last byte
\* that hi_nmask selects cleared
MaskedValue ==
    LEValue([arg.serial EXCEPT ![SER_BYTES] =
                BNInt(BNSub(BN(@), BNAnd(BN(@), BN(res.hi_nmask))))])

\* C20, as stated: for both values of with_hibit, gf_deserialize
\* returns the all-ones mask when the value of the bytes, the bits under
\* hi_nmask cleared, is below p, and the all-zeros mask otherwise.
C20_AsStated ==
    pc = "deserialized" =>
        res.ok = (IF BNLess(MaskedValue, P25519) THEN MASK_TRUE ELSE MASK_FALSE)

\* C20: gf_deserialize returns the all-ones mask when the value of the
\* bytes, the bits under hi_nmask cleared, is below p and, for with_hibit
\* = 0, is also at most (p - 1) / 2 (gf_hibit of it is clear); it returns
\* the all-zeros mask otherwise.
C20_HibitChecked ==
    pc = "deserialized" =>
        res.ok = (IF /\ BNLess(MaskedValue, P25519)
                     /\ res.with_hibit = 0 => BNLeq(MaskedValue, HALF_P)
                  THEN MASK_TRUE ELSE MASK_FALSE)

C20_Witness ==
    /\ pc = "deserialized" /\ res.with_hibit = 0 /\ res.hi_nmask = 128
    /\ arg.serial[SER_BYTES] >= 128
    /\ BNLess(MaskedValue, P25519) /\ ~BNLeq(MaskedValue, HALF_P)
    /\ res.ok = MASK_FALSE

\* C21: with with_hibit = 0 and hi_nmask = 0, gf_deserialize returns the
\* all-zeros mask for the bytes whose top bit is set, whose value is p or
\* more, or whose value is above (p - 1) / 2, and the all-ones mask for
\* all the others.
C21_NegativeRejected ==
    pc = "deserialized" /\ res.with_hibit = 0 /\ res.hi_nmask = 0 =>
        res.ok = (IF \/ arg.serial[SER_BYTES] >= 128
                     \/ ~BNLess(LEValue(arg.serial), P25519)
                     \/ ~BNLeq(LEValue(arg.serial), HALF_P)
                  THEN MASK_FALSE ELSE MASK_TRUE)

C21_Witness ==
    /\ pc = "deserialized" /\ res.with_hibit = 0 /\ res.hi_nmask = 0
    /\ arg.serial[SER_BYTES] < 128
    /\ LEValue(arg.serial) = BNAdd(HALF_P, <<1>>)
    /\ res.ok = MASK_FALSE
    /\ gf_value(res.x) = LEValue(arg.serial)

(***************************************************************************)
(* gf_serialize and gf_deserialize one after the other, from a field       *)
(* element and from 32 bytes.  The elements are the numbers around 0,      *)
(* (p - 1) / 2 and p in their canonical limbs, the small ones also with p  *)
(* added limb by limb, and the one with every limb 2^52 - 1.               *)
(***************************************************************************)
MaxWireOffset == 2
MaxWireCalls == 2

WireElements ==
    UNION {{gf_limbs(BN(d)), gf_add_RAW(gf_limbs(BN(d)), MODULUS),
            gf_limbs(BNSub(HALF_P, BN(d))), gf_limbs(BNAdd(HALF_P, BN(d + 1))),
            gf_add_RAW(gf_limbs(BNAdd(HALF_P, BN(d + 1))), MODULUS),
            gf_limbs(BNSub(P25519, BN(d + 1)))} : d \in 0..MaxWireOffset}
    \cup {SQRT_MINUS_ONE,
          [i \in 1..RISTRETTO255_FIELD_LIMBS |-> BNSub(BNPow2(LIMB_PLACE_VALUE + 1), <<1>>)]}

WireStart(x, serial) ==
    /\ arg = [x |-> x, serial |-> serial]
    /\ res = [x |-> x, serial |-> serial, ok |-> MASK_FALSE, assert1 |-> TRUE,
              with_hibit |-> 1, read_hibit |-> 1]

InitWire ==
    /\ CodecIdle /\ ScalarIdle /\ MulIdle
    /\ call = ""
    /\ \/ pc = "wire_x" /\ \E x \in WireElements : WireStart(x, <<>>)
       \/ pc = "wire_bytes" /\ \E s \in DeserInputs : WireStart(<<>>, s)
    /\ acc = ZERO /\ acc_val = BNZero /\ ops = 0
    /\ shared = <<>> /\ threads = <<>>

\* gf_serialize(serial, &x, with_hibit)
WireSerialize ==
    /\ pc = "wire_x" /\ ops < MaxWireCalls
    /\ call' = "gf_serialize"
    /\ \E with_hibit \in {0, 1} :
        \E r \in {gf_serialize_run(res.x, with_hibit)} :
            res' = [res EXCEPT !.serial = r.serial, !.assert1 = r.assert1,
                               !.with_hibit = with_hibit]
    /\ ops' = ops + 1
    /\ pc' = "wire_bytes"
    /\ UNCHANGED <<codec_vars, scalar_vars, mul_vars, arg, acc, acc_val, shared, threads>>

\* ok = gf_deserialize(&x, serial, with_hibit, 0)
WireDeserialize ==
    /\ pc = "wire_bytes" /\ ops < MaxWireCalls
    /\ call' = "gf_deserialize"
    /\ \E with_hibit \in {0, 1} :
        \E r \in {gf_deserialize(res.serial, with_hibit, 0)} :
            res' = [res EXCEPT !.x = r[1], !.ok = r[2], !.read_hibit = with_hibit]
    /\ ops' = ops + 1
    /\ pc' = "wire_x"
    /\ UNCHANGED <<codec_vars, scalar_vars, mul_vars, arg, acc, acc_val, shared, threads>>

NextWire ==
    \/ WireSerialize
    \/ WireDeserialize

SpecWire == InitWire /\ [][NextWire]_vars

\* C22: with with_hibit = 1, gf_serialize of a field element with limbs
\* below 2^52 gives the 32 little-endian bytes of its residue, whatever its
\* limbs, and gf_deserialize of them succeeds and gives the canonical limbs
\* of the residue; and gf_serialize of what a successful gf_deserialize
\* gave gives back the 32 bytes it read.
C22_RoundTrip ==
    /\ Len(arg.serial) = 0 /\ ops >= 1 =>
        res.serial = BNBytes(Residue(arg.x), SER_BYTES)
    /\ Len(arg.serial) = 0 /\ ops = 2 /\ res.read_hibit = 1 =>
        /\ res.ok = MASK_TRUE
        /\ res.x = gf_limbs(Residue(arg.x))
    /\ Len(arg.x) = 0 /\ ops = 2 /\ res.read_hibit = 1 /\ res.ok = MASK_TRUE =>
        res.serial = arg.serial

C22_Witness ==
    /\ Len(arg.serial) = 0 /\ ops = 2
    /\ res.with_hibit = 1 /\ res.read_hibit = 1
    /\ arg.x = gf_add_RAW(gf_limbs(BNAdd(HALF_P, <<1>>)), MODULUS)
    /\ res.ok = MASK_TRUE
    /\ res.x = gf_limbs(BNAdd(HALF_P, <<1>>))

\* C23, as stated: in gf_serialize with with_hibit = 0 the assertion
\* holds exactly when the top bit of the last byte written is clear.
C23_AsStated ==
    Len(arg.serial) = 0 /\ ops = 1 /\ res.with_hibit = 0 =>
        (res.assert1 <=> res.serial[SER_BYTES] < 128)

\* C23: in gf_serialize with with_hibit = 0 the assertion holds exactly
\* when the residue of x is at most (p - 1) / 2, that is when gf_hibit of
\* the reduced element is clear; the top bit of the last byte written is
\* clear for every x.
C23_AssertsHibit ==
    Len(arg.serial) = 0 /\ ops = 1 =>
        /\ res.serial[SER_BYTES] < 128
        /\ res.with_hibit = 0 => (res.assert1 <=> BNLeq(Residue(arg.x), HALF_P))
        /\ res.with_hibit = 1 => res.assert1

C23_Witness ==
    /\ Len(arg.serial) = 0 /\ ops = 1 /\ res.with_hibit = 0
    /\ Residue(arg.x) = BNSub(P25519, <<1>>)
    /\ ~res.assert1
    /\ res.serial[SER_BYTES] = 127

\* -1 as a dsword_t
DS_MINUS_ONE == BNSub(TWO128, <<1>>)

\* C24: for limbs of any 64-bit values both assertions of
\* gf_strong_reduce hold: the signed carry left by the subtraction of p is
\* 0 or -1, and the carry out of the second loop added to scarry_0 is zero
\* as a machine word (1 when p was added back, 0 when it was not).
C24_AssertionsHold ==
    pc \in {"reduced", "reduced_again"} =>
        /\ res.assert1 /\ res.assert2
        /\ res.scarry \in {BNZero, DS_MINUS_ONE}
        /\ res.scarry_0 = (IF res.scarry = BNZero THEN MASK_FALSE ELSE MASK_TRUE)
        /\ res.carry = (IF res.scarry = BNZero THEN BNZero ELSE <<1>>)
        /\ Len(W64(BNAdd(res.carry, res.scarry_0))) = 0

C24_Witness ==
    /\ pc = "reduced"
    /\ \A i \in 1..RISTRETTO255_FIELD_LIMBS : arg.a[i] = LIMB_MASK
    /\ res.scarry = BNZero /\ res.carry = BNZero
    /\ res.assert1 /\ res.assert2
    /\ gf_value(res.a) = <<18>>

\* C25: for limbs of any 64-bit values gf_weak_reduce leaves in each
\* limb above the first its low 51 bits plus the bits from the 51st up of
\* the lower limb as it was on entry, and in the first limb its low 51
\* bits plus 19 times the bits from the 51st up of the last limb; every
\* limb is then below 2^52 and the value is the same modulo p.
C25_WeakReduce ==
    pc = "weak_reduced" =>
        /\ \A i \in 2..RISTRETTO255_FIELD_LIMBS :
            res.a[i] = BNAdd(BNLow(arg.a[i], LIMB_PLACE_VALUE),
                             BNShr(arg.a[i - 1], LIMB_PLACE_VALUE))
        /\ res.a[1] = BNAdd(BNLow(arg.a[1], LIMB_PLACE_VALUE),
                            BNMulSmall(BNShr(arg.a[RISTRETTO255_FIELD_LIMBS], LIMB_PLACE_VALUE), 19))
        /\ \A i \in 1..RISTRETTO255_FIELD_LIMBS :
            BNLess(res.a[i], BNPow2(LIMB_PLACE_VALUE + 1))
        /\ Residue(res.a) = Residue(arg.a)

C25_Witness ==
    /\ pc = "weak_reduced"
    /\ \A i \in 1..RISTRETTO255_FIELD_LIMBS : arg.a[i] = MASK_TRUE
    /\ res.a[1] = BNAdd(LIMB_MASK, BN(19 * 8191))
    /\ \A i \in 2..RISTRETTO255_FIELD_LIMBS : res.a[i] = BNAdd(LIMB_MASK, <<8191>>)

(***************************************************************************)
(* gf_eq and gf_hibit on field elements with limbs below 2^52, the same    *)
(* residue in canonical and in unreduced limbs among them.                 *)
(***************************************************************************)
InitPred ==
    /\ pc = "pred_input"
    /\ CodecIdle /\ ScalarIdle /\ MulIdle
    /\ call = "" /\ res = <<>>
    /\ \E a, b \in WireElements : arg = [a |-> a, b |-> b]
    /\ acc = ZERO /\ acc_val = BNZero /\ ops = 0
    /\ shared = <<>> /\ threads = <<>>

\* gf_eq(&a, &b) and gf_eq(&b, &a)
Eq ==
    /\ pc = "pred_input"
    /\ call' = "gf_eq"
    /\ res' = [ab |-> gf_eq(arg.a, arg.b), ba |-> gf_eq(arg.b, arg.a)]
    /\ pc' = "eq_done"
    /\ UNCHANGED <<codec_vars, scalar_vars, mul_vars, arg, acc, acc_val, ops, shared, threads>>

\* gf_hibit(&a) and, with gf_sub(&n, &ZERO, &a), gf_hibit(&n)
Hibit ==
    /\ pc = "pred_input"
    /\ call' = "gf_hibit"
    /\ \E n \in {gf_sub(ZERO, arg.a)} :
        res' = [x |-> gf_hibit(arg.a), n |-> n, neg |-> gf_hibit(n)]
    /\ pc' = "hibit_done"
    /\ UNCHANGED <<codec_vars, scalar_vars, mul_vars, arg, acc, acc_val, ops, shared, threads>>

NextPred ==
    \/ Eq
    \/ Hibit

SpecPred == InitPred /\ [][NextPred]_vars

\* C26: for a and b with limbs below 2^52, gf_eq(a, b) is the all-ones
\* mask when a and b have the same residue modulo p, whatever their limbs,
\* and the all-zeros mask when they do not; and gf_eq(b, a) is the same
\* mask.
C26_EqIsCongruence ==
    pc = "eq_done" =>
        /\ res.ab = (IF Residue(arg.a) = Residue(arg.b) THEN MASK_TRUE ELSE MASK_FALSE)
        /\ res.ba = res.ab

C26_Witness ==
    /\ pc = "eq_done"
    /\ arg.a # arg.b
    /\ Residue(arg.a) = Residue(arg.b)
    /\ res.ab = MASK_TRUE /\ res.ba = MASK_TRUE

\* C27: gf_hibit(x) is the all-ones mask when 2x mod p is odd, which is
\* when x mod p is above (p - 1) / 2, and the all-zeros mask when it is
\* not; gf_hibit of 0 is all-zeros, and of x and -x, x not 0 modulo p,
\* exactly one is all-ones.
C27_HibitIsSign ==
    pc = "hibit_done" =>
        /\ res.x = (IF BNIsOdd(ModP(BNShl(Residue(arg.a), 1))) THEN MASK_TRUE ELSE MASK_FALSE)
        /\ res.x = (IF BNLeq(Residue(arg.a), HALF_P) THEN MASK_FALSE ELSE MASK_TRUE)
        /\ Residue(arg.a) = BNZero => res.x = MASK_FALSE /\ res.neg = MASK_FALSE
        /\ Residue(arg.a) # BNZero =>
            /\ Residue(res.n) = BNSub(P25519, Residue(arg.a))
            /\ {res.x, res.neg} = {MASK_TRUE, MASK_FALSE}

C27_Witness ==
    /\ pc = "hibit_done"
    /\ Residue(arg.a) = BNAdd(HALF_P, <<1>>)
    /\ arg.a # gf_limbs(Residue(arg.a))
    /\ res.x = MASK_TRUE /\ res.neg = MASK_FALSE

(***************************************************************************)
(* gf_sub, statement by statement: d is acc, and res keeps what d was      *)
(* after each statement.                                                   *)
(***************************************************************************)
InitSub ==
    /\ pc = "sub_input"
    /\ CodecIdle /\ ScalarIdle /\ MulIdle
    /\ call = "" /\ res = <<>>
    /\ \E a, b \in WireElements : arg = [a |-> a, b |-> b]
    /\ acc = ZERO /\ acc_val = BNZero /\ ops = 0
    /\ shared = <<>> /\ threads = <<>>

\* gf_sub_RAW(d, a, b)
SubRaw ==
    /\ pc = "sub_input"
    /\ call' = "gf_sub_RAW"
    /\ acc' = gf_sub_RAW(arg.a, arg.b)
    /\ res' = [raw |-> acc']
    /\ pc' = "sub_raw"
    /\ UNCHANGED <<codec_vars, scalar_vars, mul_vars, arg, acc_val, ops, shared, threads>>

\* gf_bias(d, 2)
SubBias ==
    /\ pc = "sub_raw"
    /\ call' = "gf_bias"
    /\ acc' = gf_bias(acc, 2)
    /\ res' = [raw |-> res.raw, biased |-> acc']
    /\ pc' = "sub_biased"
    /\ UNCHANGED <<codec_vars, scalar_vars, mul_vars, arg, acc_val, ops, shared, threads>>

\* gf_weak_reduce(d)
SubWeakReduce ==
    /\ pc = "sub_biased"
    /\ call' = "gf_weak_reduce"
    /\ acc' = gf_weak_reduce(acc)
    /\ res' = [raw |-> res.raw, biased |-> res.biased, reduced |-> acc']
    /\ pc' = "sub_done"
    /\ UNCHANGED <<codec_vars, scalar_vars, mul_vars, arg, acc_val, ops, shared, threads>>

NextSub ==
    \/ SubRaw
    \/ SubBias
    \/ SubWeakReduce

SpecSub == InitSub /\ [][NextSub]_vars

\* a word that is negative when read as a signed one
SignBit(w) == BNBit(w, WORD_BITS - 1) = 1

\* what gf_bias(d, 2) adds to limb i: 2^53 - 76 to the first, 2^53 - 4 to
\* the others
BiasOfTwo(i) == BNSub(BNPow2(LIMB_PLACE_VALUE + 2), IF i = 1 THEN <<76>> ELSE <<4>>)

\* C28, as stated: for a and b with limbs below 2^52 no limb of d is
\* negative after any statement of gf_sub, the raw subtraction included.
C28_AsStated ==
    pc \in {"sub_raw", "sub_biased", "sub_done"} =>
        \A i \in 1..RISTRETTO255_FIELD_LIMBS : ~SignBit(acc[i])

\* C28: for a and b with limbs below 2^52, gf_sub subtracts first and
\* biases after: after gf_sub_RAW a limb with a[i] < b[i] holds
\* a[i] - b[i] + 2^64, a negative word; after gf_bias every limb is
\* a[i] - b[i] plus the bias, exactly and not negative; after
\* gf_weak_reduce every limb is below 2^52 and d is a - b modulo p.
C28_BiasAfterRaw ==
    /\ pc \in {"sub_raw", "sub_biased", "sub_done"} =>
        \A i \in 1..RISTRETTO255_FIELD_LIMBS :
            /\ res.raw[i] = (IF BNLess(arg.a[i], arg.b[i])
                             THEN BNSub(BNAdd(arg.a[i], TWO64), arg.b[i])
                             ELSE BNSub(arg.a[i], arg.b[i]))
            /\ SignBit(res.raw[i]) <=> BNLess(arg.a[i], arg.b[i])
    /\ pc \in {"sub_biased", "sub_done"} =>
        \A i \in 1..RISTRETTO255_FIELD_LIMBS :
            /\ res.biased[i] = BNSub(BNAdd(arg.a[i], BiasOfTwo(i)), arg.b[i])
            /\ ~SignBit(res.biased[i])
    /\ pc = "sub_done" =>
        /\ \A i \in 1..RISTRETTO255_FIELD_LIMBS :
            BNLess(acc[i], BNPow2(LIMB_PLACE_VALUE + 1))
        /\ Residue(acc) = ModP(BNSub(BNAdd(Residue(arg.a), P25519), Residue(arg.b)))
        /\ acc = gf_sub(arg.a, arg.b)

C28_Witness ==
    /\ pc = "sub_done"
    /\ \E i \in 1..RISTRETTO255_FIELD_LIMBS : SignBit(res.raw[i])
    /\ \A i \in 1..RISTRETTO255_FIELD_LIMBS : ~SignBit(res.biased[i])
    /\ arg.a = ZERO
    /\ Residue(arg.b) = <<1>>
    /\ Residue(acc) = BNSub(P25519, <<1>>)

\* C29: two calls of gf_deserialize on bytes that differ only in bits of
\* the last byte that hi_nmask selects give the same limbs and the same
\* mask, and after a call the 32 bytes it read are what they were.
C29_MaskedBitsIgnored ==
    /\ pc = "deserialized" => res.serial = arg.serial
    /\ pc = "deserialized_other" =>
        /\ res.other # arg.serial
        /\ res.x = res.one.x
        /\ res.ok = res.one.ok
        /\ res.serial = res.other

C29_Witness ==
    /\ pc = "deserialized_other"
    /\ res.one.hi_nmask = 192 /\ res.one.with_hibit = 1
    /\ arg.serial[SER_BYTES] = 255
    /\ res.other[SER_BYTES] = 63
    /\ res.ok = MASK_TRUE /\ res.one.ok = MASK_TRUE
    /\ res.x = res.one.x

\* (p - 5) / 8
ISR_EXPONENT == BNShr(BNSub(P25519, <<5>>), 3)

\* x^((p - 5) / 8) mod p by square and multiply
IsrPower(x) ==
    Iterate(PowModPStep,
            [x |-> x, e |-> ISR_EXPONENT, i |-> GF_BITS - 4, r |-> <<1>>],
            GF_BITS - 3).r

\* C30, as stated: before its verification gf_isr has x^((p - 5) / 8) =
\* x^(2^252 - 3) in L0, by 11 products and 250 squarings for every x.
C30_AsStated ==
    pc = "isr_chain_done" =>
        /\ ISR_EXPONENT = BNSub(BNPow2(252), <<3>>)
        /\ Residue(res.l0) = IsrPower(Residue(arg.x))
        /\ res.mul = 11
        /\ res.sqr = 250

\* C30: before its verification gf_isr has x^((p - 5) / 8) = x^(2^252 - 3)
\* in L0, by 11 products and 251 squarings for every x.
C30_ChainPower ==
    pc = "isr_chain_done" =>
        /\ ISR_EXPONENT = BNSub(BNPow2(252), <<3>>)
        /\ Residue(res.l0) = IsrPower(Residue(arg.x))
        /\ res.mul = 11
        /\ res.sqr = 251

C30_Witness ==
    /\ pc = "isr_chain_done"
    /\ Residue(arg.x) = <<2>>
    /\ arg.x # gf_limbs(<<2>>)
    /\ Residue(res.l0) = IsrPower(<<2>>)
    /\ Residue(res.l0) \notin {BNZero, <<1>>}
    /\ res.mul + res.sqr = 262

=============================================================================
